---- MODULE Spec2Model ----
(***************************************************************************)
(* Model of the budget-expenditure comparative report:                     *)
(*   - the raw-row aggregation of DespesaOrcamentariaService               *)
(*     (services/despesa_orcamentaria_service.py),                         *)
(*   - the view pass-through of DespesaServico                             *)
(*     (backend/servicos/despesa_servico.py),                              *)
(*   - the file caches CacheService (backend/servicos/cache_servico.py)    *)
(*     and SimpleCache (services/simple_cache.py).                         *)
(* Money is counted in whole units (integers); strings that the code       *)
(* parses or strips are sequences of one-character strings.                *)
(***************************************************************************)
EXTENDS Integers, Sequences, FiniteSets, TLC

\* ------------------------------------------------------------------ bounds
\* Longest extract (number of ledger rows) the source returns.
MaxRows == 2
\* Longest row list a database view returns.
MaxViewRows == 2
\* Requests served at the same time (app.run(threaded=True)).
NThreads == 3
\* The clock advances in steps of Passo hours, up to MaxHora.
Passo == 12
MaxHora == 36

\* --------------------------------------------------------------- registry
\* ESTRUTURA_CATEGORIAS, in dict order: category ids, and the groups of each.
ESTRUTURA_CATEGORIAS == << [id |-> "3", nome |-> "DESPESAS CORRENTES",
                            grupos |-> << [id |-> "1", nome |-> "PESSOAL E ENCARGOS SOCIAIS"],
                                          [id |-> "2", nome |-> "JUROS E ENCARGOS DA DIVIDA"],
                                          [id |-> "3", nome |-> "OUTRAS DESPESAS CORRENTES"] >>],
                           [id |-> "4", nome |-> "DESPESAS DE CAPITAL",
                            grupos |-> << [id |-> "4", nome |-> "INVESTIMENTOS"],
                                          [id |-> "5", nome |-> "INVERSOES FINANCEIRAS"],
                                          [id |-> "6", nome |-> "AMORTIZACAO DA DIVIDA"] >>],
                           [id |-> "9", nome |-> "RESERVA DE CONTINGENCIA",
                            grupos |-> << >>] >>

\* ------------------------------------------------------------ cell values
\* A cell of a numeric column as the driver / pickle delivers it: an integer,
\* a string (sequence of characters) or a missing value.
CelInt(n) == [t |-> "int", n |-> n, s |-> << >>]
CelStr(s) == [t |-> "str", n |-> 0, s |-> s]
CelNan == [t |-> "nan", n |-> 0, s |-> << >>]

Digitos == << "0", "1", "2", "3", "4", "5", "6", "7", "8", "9" >>

DigitoDe(c) == (CHOOSE i \in 1..10 : Digitos[i] = c) - 1

EhNumerica(s) == Len(s) > 0 /\ \A i \in 1..Len(s) : \E j \in 1..10 : Digitos[j] = s[i]

RECURSIVE ValorDecimal(_)
ValorDecimal(s) ==
    IF Len(s) = 0 THEN 0
    ELSE 10 * ValorDecimal(SubSeq(s, 1, Len(s) - 1)) + DigitoDe(s[Len(s)])

\* pd.to_numeric(col, errors='coerce').fillna(0).astype(int), cell by cell.
to_int(c) ==
    CASE c.t = "int" -> c.n
      [] c.t = "str" -> IF EhNumerica(c.s) THEN ValorDecimal(c.s) ELSE 0
      [] OTHER -> 0

\* str(n) for n >= 0.
RECURSIVE str_int(_)
str_int(n) ==
    IF n < 10 THEN << Digitos[n + 1] >>
    ELSE str_int(n \div 10) \o << Digitos[(n % 10) + 1] >>

\* str.strip(): leading and trailing blanks removed.
RECURSIVE lstrip(_)
lstrip(s) == IF Len(s) > 0 /\ s[1] = " " THEN lstrip(Tail(s)) ELSE s

RECURSIVE rstrip(_)
rstrip(s) == IF Len(s) > 0 /\ s[Len(s)] = " " THEN rstrip(SubSeq(s, 1, Len(s) - 1)) ELSE s

strip(s) == rstrip(lstrip(s))

\* df['COUG'].astype(str).str.strip(), cell by cell.
norm_coug_mutante(c) ==
    CASE c.t = "int" -> str_int(c.n)
      [] c.t = "str" -> lstrip(c.s)
      [] OTHER -> << "n", "a", "n" >>

norm_coug(c) ==
    CASE c.t = "int" -> str_int(c.n)
      [] c.t = "str" -> strip(c.s)
      [] OTHER -> << "n", "a", "n" >>

\* ------------------------------------------------------- monetary records
criar_valores_zerados ==
    [dotacao_inicial |-> 0, dotacao_adicional |-> 0, cancelamento_dotacao |-> 0,
     cancel_remaneja_dotacao |-> 0, dotacao_atualizada |-> 0, despesa_empenhada |-> 0,
     despesa_liquidada |-> 0, despesa_paga |-> 0, saldo_dotacao |-> 0]

\* df[col].sum()
SomaColuna_mutante(df, col) ==
    IF Len(df) = 0 THEN 0 ELSE df[1].v[col] * Len(df)

RECURSIVE SomaColuna(_, _)
SomaColuna(df, col) ==
    IF Len(df) = 0 THEN 0 ELSE df[1].v[col] + SomaColuna(Tail(df), col)

\* df[df[col] == valor]
Filtrar(df, col, valor) == SelectSeq(df, LAMBDA r : r[col] = valor)

somar_valores(df) ==
    IF Len(df) = 0 THEN criar_valores_zerados
    ELSE LET ini == SomaColuna(df, "DOTACAO_INICIAL")
             adi == SomaColuna(df, "DOTACAO_ADICIONAL")
             can == SomaColuna(df, "CANCELAMENTO_DOTACAO")
             rem == SomaColuna(df, "CANCEL_REMANEJA_DOTACAO")
             emp == SomaColuna(df, "DESPESA_EMPENHADA")
             liq == SomaColuna(df, "DESPESA_LIQUIDADA")
             pag == SomaColuna(df, "DESPESA_PAGA")
         IN  [dotacao_inicial |-> ini, dotacao_adicional |-> adi,
              cancelamento_dotacao |-> can, cancel_remaneja_dotacao |-> rem,
              dotacao_atualizada |-> ini + adi + can + rem,
              despesa_empenhada |-> emp, despesa_liquidada |-> liq,
              despesa_paga |-> pag,
              saldo_dotacao |-> (ini + adi + can + rem) - emp]

\* _somar_dicts: keys of dict1, plus the keys only dict2 has.
somar_dicts_mutante(dict1, dict2) ==
    [k \in DOMAIN dict1 \cup DOMAIN dict2 |->
        IF k \in DOMAIN dict2 THEN dict2[k] ELSE dict1[k]]

somar_dicts(dict1, dict2) ==
    [k \in DOMAIN dict1 \cup DOMAIN dict2 |->
        IF k \in DOMAIN dict1
        THEN (IF k \in DOMAIN dict2 THEN dict1[k] + dict2[k] ELSE dict1[k])
        ELSE dict2[k]]

\* ------------------------------------------------- raw-row aggregation
\* sorted(set): ascending sequence of the elements of a finite set of numbers.
RECURSIVE sorted(_)
sorted(S) ==
    IF S = {} THEN << >>
    ELSE LET m == CHOOSE x \in S : \A y \in S : x <= y
         IN  << m >> \o sorted(S \ {m})

ColunaUnique(df, col) == { df[i][col] : i \in 1..Len(df) }

\* _processar_detalhes_grupo: one node per nature code of either year.
detalhe_mutante(df_atual, df_anterior, natureza) ==
    [natureza |-> str_int(natureza),
     valores_atual |-> somar_valores(Filtrar(df_atual, "CONATUREZA", natureza)),
     valores_anterior |-> somar_valores(Filtrar(df_atual, "CONATUREZA", natureza))]

detalhe(df_atual, df_anterior, natureza) ==
    LET df_nat_atual == Filtrar(df_atual, "CONATUREZA", natureza)
        df_nat_anterior == Filtrar(df_anterior, "CONATUREZA", natureza)
    IN  [natureza |-> str_int(natureza),
         valores_atual |-> IF Len(df_nat_atual) > 0 THEN somar_valores(df_nat_atual)
                           ELSE criar_valores_zerados,
         valores_anterior |-> IF Len(df_nat_anterior) > 0 THEN somar_valores(df_nat_anterior)
                              ELSE criar_valores_zerados]

processar_detalhes_grupo_mutante(df_atual, df_anterior) ==
    LET todas_naturezas == sorted(ColunaUnique(df_atual, "CONATUREZA"))
    IN  [i \in 1..Len(todas_naturezas) |-> detalhe(df_atual, df_anterior, todas_naturezas[i])]

processar_detalhes_grupo(df_atual, df_anterior) ==
    LET naturezas_atual == IF Len(df_atual) > 0 THEN ColunaUnique(df_atual, "CONATUREZA") ELSE {}
        naturezas_anterior == IF Len(df_anterior) > 0 THEN ColunaUnique(df_anterior, "CONATUREZA") ELSE {}
        todas_naturezas == sorted(naturezas_atual \cup naturezas_anterior)
    IN  [i \in 1..Len(todas_naturezas) |-> detalhe(df_atual, df_anterior, todas_naturezas[i])]

\* The inner loop of _processar_demonstrativo over cat_info['grupos'].
RECURSIVE processar_grupos(_, _, _, _, _)
processar_grupos(grupos, i, df_cat_atual, df_cat_anterior, acc) ==
    IF i > Len(grupos) THEN acc
    ELSE LET df_grupo_atual == Filtrar(df_cat_atual, "GRUPO", grupos[i].id)
             df_grupo_anterior == Filtrar(df_cat_anterior, "GRUPO", grupos[i].id)
         IN  IF Len(df_grupo_atual) = 0 /\ Len(df_grupo_anterior) = 0
             THEN processar_grupos(grupos, i + 1, df_cat_atual, df_cat_anterior, acc)
             ELSE processar_grupos(grupos, i + 1, df_cat_atual, df_cat_anterior,
                      Append(acc,
                          [id |-> grupos[i].id,
                           nome |-> grupos[i].nome,
                           valores_atual |-> somar_valores(df_grupo_atual),
                           valores_anterior |-> somar_valores(df_grupo_anterior),
                           detalhes |-> processar_detalhes_grupo(df_grupo_atual,
                                                                 df_grupo_anterior)]))

\* The outer loop of _processar_demonstrativo over ESTRUTURA_CATEGORIAS; acc
\* carries the category list and the running totals total_atual/total_anterior.
RECURSIVE processar_categorias(_, _, _, _)
processar_categorias(i, df_atual, df_anterior, acc) ==
    IF i > Len(ESTRUTURA_CATEGORIAS) THEN acc
    ELSE LET cat == ESTRUTURA_CATEGORIAS[i]
             df_cat_atual == Filtrar(df_atual, "CATEGORIA", cat.id)
             df_cat_anterior == Filtrar(df_anterior, "CATEGORIA", cat.id)
             valores_cat_atual == somar_valores(df_cat_atual)
             valores_cat_anterior == somar_valores(df_cat_anterior)
         IN  IF Len(df_cat_atual) = 0 /\ Len(df_cat_anterior) = 0
             THEN processar_categorias(i + 1, df_atual, df_anterior, acc)
             ELSE processar_categorias(i + 1, df_atual, df_anterior,
                      [categorias |-> Append(acc.categorias,
                           [id |-> cat.id,
                            nome |-> cat.nome,
                            valores_atual |-> valores_cat_atual,
                            valores_anterior |-> valores_cat_anterior,
                            grupos |-> processar_grupos(cat.grupos, 1, df_cat_atual,
                                                        df_cat_anterior, << >>)]),
                       total_atual |-> somar_dicts(acc.total_atual, valores_cat_atual),
                       total_anterior |-> somar_dicts(acc.total_anterior, valores_cat_anterior)])

processar_demonstrativo_mutante(df_atual, df_anterior) ==
    LET r == processar_categorias(1, df_atual, df_anterior,
                 [categorias |-> << >>,
                  total_atual |-> criar_valores_zerados,
                  total_anterior |-> criar_valores_zerados])
        com_valor(c) == \E lado \in {"valores_atual", "valores_anterior"} :
                            \E f \in DOMAIN c[lado] : c[lado][f] # 0
    IN  [categorias |-> SelectSeq(r.categorias, com_valor),
         total_geral |-> [valores_atual |-> r.total_atual,
                          valores_anterior |-> r.total_anterior]]

processar_demonstrativo(df_atual, df_anterior) ==
    LET r == processar_categorias(1, df_atual, df_anterior,
                 [categorias |-> << >>,
                  total_atual |-> criar_valores_zerados,
                  total_anterior |-> criar_valores_zerados])
    IN  [categorias |-> r.categorias,
         total_geral |-> [valores_atual |-> r.total_atual,
                          valores_anterior |-> r.total_anterior]]

\* _criar_valores_creditos_zerados
criar_valores_creditos_zerados ==
    [credito_suplementar |-> 0, credito_especial_aberto |-> 0,
     credito_especial_reaberto |-> 0, credito_extraordinario_reaberto |-> 0,
     cancel_credito_suplementar |-> 0, remanejamento_veto_lei |-> 0,
     cancel_credito_especial |-> 0, total_alteracoes |-> 0]

\* _somar_valores_creditos: the seven column sums, then their sum.
somar_valores_creditos(df) ==
    IF Len(df) = 0 THEN criar_valores_creditos_zerados
    ELSE LET valores ==
                 [credito_suplementar |-> SomaColuna(df, "CREDITO_SUPLEMENTAR"),
                  credito_especial_aberto |-> SomaColuna(df, "CREDITO_ESPECIAL_ABERTO"),
                  credito_especial_reaberto |-> SomaColuna(df, "CREDITO_ESPECIAL_REABERTO"),
                  credito_extraordinario_reaberto |->
                      SomaColuna(df, "CREDITO_EXTRAORD_REABERTO"),
                  cancel_credito_suplementar |-> SomaColuna(df, "CANCEL_CREDITO_SUPLEMENTAR"),
                  remanejamento_veto_lei |-> SomaColuna(df, "REMANEJAMENTO_VETO_LEI"),
                  cancel_credito_especial |-> SomaColuna(df, "CANCEL_CREDITO_ESPECIAL")]
         IN  [k \in DOMAIN valores \cup {"total_alteracoes"} |->
                 IF k = "total_alteracoes"
                 THEN valores.credito_suplementar + valores.credito_especial_aberto
                      + valores.credito_especial_reaberto
                      + valores.credito_extraordinario_reaberto
                      + valores.cancel_credito_suplementar + valores.remanejamento_veto_lei
                      + valores.cancel_credito_especial
                 ELSE valores[k]]

\* The inner loop of _processar_creditos over the groups of a category.
grupos_creditos(grupos, df_cat) ==
    LET com_linhas == SelectSeq(grupos, LAMBDA g : Len(Filtrar(df_cat, "GRUPO", g.id)) > 0)
    IN  [j \in 1..Len(com_linhas) |->
            [id |-> com_linhas[j].id,
             nome |-> com_linhas[j].nome,
             valores |-> somar_valores_creditos(Filtrar(df_cat, "GRUPO", com_linhas[j].id))]]

\* The outer loop of _processar_creditos; acc carries the category list and
\* the running total.
RECURSIVE categorias_creditos(_, _, _)
categorias_creditos(i, df, acc) ==
    IF i > Len(ESTRUTURA_CATEGORIAS) THEN acc
    ELSE LET cat == ESTRUTURA_CATEGORIAS[i]
             df_cat == Filtrar(df, "CATEGORIA", cat.id)
             valores_cat == somar_valores_creditos(df_cat)
         IN  IF Len(df_cat) = 0 THEN categorias_creditos(i + 1, df, acc)
             ELSE categorias_creditos(i + 1, df,
                      [categorias |-> Append(acc.categorias,
                           [id |-> cat.id,
                            nome |-> cat.nome,
                            valores |-> valores_cat,
                            grupos |-> grupos_creditos(cat.grupos, df_cat)]),
                       total_geral |-> somar_dicts(acc.total_geral, valores_cat)])

processar_creditos(df) ==
    categorias_creditos(1, df, [categorias |-> << >>,
                                total_geral |-> criar_valores_creditos_zerados])

\* exportar_dados_processados: the rows handed to pd.DataFrame(linhas), built
\* from the result of processar_dados_comparativo.  DESCRICAO is kept as its
\* indentation prefix and the text that follows it.
exportar_dados_processados_mutante(dados) ==
    LET linha(tipo, descricao, no) ==
            [TIPO |-> tipo, DESCRICAO |-> descricao,
             DOTACAO_INICIAL |-> no.valores_atual.dotacao_inicial,
             DOTACAO_ATUALIZADA |-> no.valores_atual.dotacao_atualizada,
             EMPENHADA_ANTERIOR |-> no.valores_anterior.despesa_empenhada,
             EMPENHADA_ATUAL |-> no.valores_atual.despesa_empenhada,
             LIQUIDADA_ANTERIOR |-> no.valores_anterior.despesa_liquidada,
             LIQUIDADA_ATUAL |-> no.valores_atual.despesa_liquidada,
             PAGA_ANTERIOR |-> no.valores_anterior.despesa_paga,
             PAGA_ATUAL |-> no.valores_atual.despesa_paga,
             SALDO |-> no.valores_atual.saldo_dotacao]
        do_grupo(grupo) ==
            [k \in 1..Len(grupo.detalhes) |->
                linha("DETALHE", << "    Natureza: ", grupo.detalhes[k].natureza >>,
                      grupo.detalhes[k])]
            \o << linha("GRUPO", << "  ", grupo.nome >>, grupo) >>
        RECURSIVE dos_grupos(_, _)
        dos_grupos(grupos, j) ==
            IF j > Len(grupos) THEN << >>
            ELSE do_grupo(grupos[j]) \o dos_grupos(grupos, j + 1)
        RECURSIVE das_categorias(_, _)
        das_categorias(categorias, i) ==
            IF i > Len(categorias) THEN << >>
            ELSE << linha("CATEGORIA", << categorias[i].nome >>, categorias[i]) >>
                 \o dos_grupos(categorias[i].grupos, 1)
                 \o das_categorias(categorias, i + 1)
    IN  IF ~dados.success THEN << >>
        ELSE das_categorias(dados.demonstrativo.categorias, 1)
             \o << linha("TOTAL", << "TOTAL GERAL" >>, dados.demonstrativo.total_geral) >>

exportar_dados_processados(dados) ==
    LET linha(tipo, descricao, no) ==
            [TIPO |-> tipo, DESCRICAO |-> descricao,
             DOTACAO_INICIAL |-> no.valores_atual.dotacao_inicial,
             DOTACAO_ATUALIZADA |-> no.valores_atual.dotacao_atualizada,
             EMPENHADA_ANTERIOR |-> no.valores_anterior.despesa_empenhada,
             EMPENHADA_ATUAL |-> no.valores_atual.despesa_empenhada,
             LIQUIDADA_ANTERIOR |-> no.valores_anterior.despesa_liquidada,
             LIQUIDADA_ATUAL |-> no.valores_atual.despesa_liquidada,
             PAGA_ANTERIOR |-> no.valores_anterior.despesa_paga,
             PAGA_ATUAL |-> no.valores_atual.despesa_paga,
             SALDO |-> no.valores_atual.saldo_dotacao]
        do_grupo(grupo) ==
            << linha("GRUPO", << "  ", grupo.nome >>, grupo) >>
            \o [k \in 1..Len(grupo.detalhes) |->
                    linha("DETALHE", << "    Natureza: ", grupo.detalhes[k].natureza >>,
                          grupo.detalhes[k])]
        RECURSIVE dos_grupos(_, _)
        dos_grupos(grupos, j) ==
            IF j > Len(grupos) THEN << >>
            ELSE do_grupo(grupos[j]) \o dos_grupos(grupos, j + 1)
        RECURSIVE das_categorias(_, _)
        das_categorias(categorias, i) ==
            IF i > Len(categorias) THEN << >>
            ELSE << linha("CATEGORIA", << categorias[i].nome >>, categorias[i]) >>
                 \o dos_grupos(categorias[i].grupos, 1)
                 \o das_categorias(categorias, i + 1)
    IN  IF ~dados.success THEN << >>
        ELSE das_categorias(dados.demonstrativo.categorias, 1)
             \o << linha("TOTAL", << "TOTAL GERAL" >>, dados.demonstrativo.total_geral) >>

calcular_totais_cards(df_atual, df_anterior) ==
    [atual |-> somar_valores(df_atual),
     anterior |-> somar_valores(df_anterior),
     registros_atual |-> Len(df_atual),
     registros_anterior |-> Len(df_anterior)]

\* The type conversions of processar_dados_comparativo (lines 159-179).
normalizar(df) ==
    [i \in 1..Len(df) |->
        [df[i] EXCEPT !.COEXERCICIO = to_int(@), !.INMES = to_int(@), !.COUG = norm_coug(@)]]

\* mask_atual / mask_anterior of processar_dados_comparativo, row by row.
mask_atual_mutante(r, exercicio, mes) == r.COEXERCICIO = exercicio /\ r.INMES < mes

mask_atual(r, exercicio, mes) == r.COEXERCICIO = exercicio /\ r.INMES <= mes

mask_anterior(r, exercicio, mes) == r.COEXERCICIO = exercicio - 1 /\ r.INMES <= mes

\* A unit selector: None, or a string.
UgNone == [nulo |-> TRUE, s |-> << >>]
UgStr(s) == [nulo |-> FALSE, s |-> s]
CONSOLIDADO == << "CONSOLIDADO" >>

\* `if ug and ug != 'CONSOLIDADO'`
filtra_ug(ug) == ~ug.nulo /\ ug.s # << >> /\ ug.s # CONSOLIDADO

\* ------------------------------------------------- view pass-through
CATEGORIAS == [c \in {"3", "4", "9"} |->
    CASE c = "3" -> "DESPESAS CORRENTES"
      [] c = "4" -> "DESPESAS DE CAPITAL"
      [] OTHER -> "RESERVA DE CONTINGENCIA"]

GRUPOS == [g \in {"1", "2", "3", "4", "5", "6"} |->
    CASE g = "1" -> "PESSOAL E ENCARGOS SOCIAIS"
      [] g = "2" -> "JUROS E ENCARGOS DA DIVIDA"
      [] g = "3" -> "OUTRAS DESPESAS CORRENTES"
      [] g = "4" -> "INVESTIMENTOS"
      [] g = "5" -> "INVERSOES FINANCEIRAS"
      [] OTHER -> "AMORTIZACAO DA DIVIDA"]

\* The group node built from one row of VW_DESPESA_RESUMO_GRUPO.
grupo_da_view(grupo_data) ==
    [id |-> grupo_data.GRUPO,
     nome |-> IF grupo_data.GRUPO \in DOMAIN GRUPOS THEN GRUPOS[grupo_data.GRUPO]
              ELSE grupo_data.NOME_GRUPO,
     valores_atual |-> [dotacao_inicial |-> grupo_data.DOTACAO_INICIAL,
                        dotacao_atualizada |-> grupo_data.DOTACAO_ATUALIZADA,
                        despesa_empenhada |-> grupo_data.DESPESA_EMPENHADA,
                        despesa_liquidada |-> grupo_data.DESPESA_LIQUIDADA,
                        despesa_paga |-> grupo_data.DESPESA_PAGA,
                        saldo_dotacao |-> grupo_data.SALDO_DOTACAO],
     valores_anterior |-> [despesa_empenhada |-> 0,
                           despesa_liquidada |-> 0,
                           despesa_paga |-> 0]]

\* RepositorioDespesa.obter_resumo_grupo: WHERE EXERCICIO = :exercicio.  The
\* rows held are those of the requested months and unit.
obter_resumo_grupo(vw, exercicio) == SelectSeq(vw, LAMBDA g : g.EXERCICIO = exercicio)

\* The category node built from one row of VW_COMPARATIVO_ANUAL.
categoria_da_view(cat_data, grupos) ==
    LET grupos_categoria == SelectSeq(grupos, LAMBDA g : g.CATEGORIA = cat_data.CATEGORIA)
    IN  [id |-> cat_data.CATEGORIA,
         nome |-> IF cat_data.CATEGORIA \in DOMAIN CATEGORIAS
                  THEN CATEGORIAS[cat_data.CATEGORIA] ELSE cat_data.NOME_CATEGORIA,
         valores_atual |-> [dotacao_inicial |-> cat_data.DOTACAO_INICIAL,
                            dotacao_atualizada |-> cat_data.DOTACAO_ATUALIZADA,
                            despesa_empenhada |-> cat_data.DESPESA_EMPENHADA,
                            despesa_liquidada |-> cat_data.DESPESA_LIQUIDADA,
                            despesa_paga |-> cat_data.DESPESA_PAGA,
                            saldo_dotacao |-> cat_data.SALDO_DOTACAO],
         valores_anterior |-> [despesa_empenhada |-> cat_data.DESPESA_EMPENHADA_ANTERIOR,
                               despesa_liquidada |-> cat_data.DESPESA_LIQUIDADA_ANTERIOR,
                               despesa_paga |-> cat_data.DESPESA_PAGA_ANTERIOR],
         grupos |-> [j \in 1..Len(grupos_categoria) |-> grupo_da_view(grupos_categoria[j])]]

\* total_geral of _montar_estrutura_demonstrativo, as accumulated over the rows.
total_geral_zerado ==
    [dotacao_inicial |-> 0, dotacao_atualizada |-> 0, despesa_empenhada |-> 0,
     despesa_liquidada |-> 0, despesa_paga |-> 0, despesa_empenhada_anterior |-> 0,
     despesa_liquidada_anterior |-> 0, despesa_paga_anterior |-> 0, saldo_dotacao |-> 0]

somar_totais_view(total_geral, cat_data) ==
    [total_geral EXCEPT
        !.dotacao_inicial = @ + cat_data.DOTACAO_INICIAL,
        !.dotacao_atualizada = @ + cat_data.DOTACAO_ATUALIZADA,
        !.despesa_empenhada = @ + cat_data.DESPESA_EMPENHADA,
        !.despesa_liquidada = @ + cat_data.DESPESA_LIQUIDADA,
        !.despesa_paga = @ + cat_data.DESPESA_PAGA,
        !.despesa_empenhada_anterior = @ + cat_data.DESPESA_EMPENHADA_ANTERIOR,
        !.despesa_liquidada_anterior = @ + cat_data.DESPESA_LIQUIDADA_ANTERIOR,
        !.despesa_paga_anterior = @ + cat_data.DESPESA_PAGA_ANTERIOR,
        !.saldo_dotacao = @ + cat_data.SALDO_DOTACAO]

RECURSIVE montar_categorias(_, _, _, _)
montar_categorias(comparativo, grupos, i, acc) ==
    IF i > Len(comparativo) THEN acc
    ELSE montar_categorias(comparativo, grupos, i + 1,
             [categorias |-> Append(acc.categorias, categoria_da_view(comparativo[i], grupos)),
              total_geral |-> somar_totais_view(acc.total_geral, comparativo[i])])

\* total_creditos of DespesaServico._processar_creditos.
total_creditos_zerado ==
    [credito_suplementar |-> 0, credito_especial_aberto |-> 0,
     credito_especial_reaberto |-> 0, credito_extraordinario_reaberto |-> 0,
     cancel_credito_suplementar |-> 0, remanejamento_veto_lei |-> 0,
     cancel_credito_especial |-> 0, total_alteracoes |-> 0]

\* str.upper() on the keys of total_creditos.
upper(campo) ==
    CASE campo = "credito_suplementar" -> "CREDITO_SUPLEMENTAR"
      [] campo = "credito_especial_aberto" -> "CREDITO_ESPECIAL_ABERTO"
      [] campo = "credito_especial_reaberto" -> "CREDITO_ESPECIAL_REABERTO"
      [] campo = "credito_extraordinario_reaberto" -> "CREDITO_EXTRAORDINARIO_REABERTO"
      [] campo = "cancel_credito_suplementar" -> "CANCEL_CREDITO_SUPLEMENTAR"
      [] campo = "remanejamento_veto_lei" -> "REMANEJAMENTO_VETO_LEI"
      [] campo = "cancel_credito_especial" -> "CANCEL_CREDITO_ESPECIAL"
      [] campo = "total_alteracoes" -> "TOTAL_ALTERACOES"

\* dict.get(key, 0)
dict_get(d, key) == IF key \in DOMAIN d THEN d[key] ELSE 0

\* The loop of DespesaServico._processar_creditos over the rows of
\* VW_CREDITOS_ADICIONAIS; acc carries categorias_creditos (in insertion
\* order) and total_creditos.
RECURSIVE creditos_da_view(_, _, _)
creditos_da_view(creditos, i, acc) ==
    IF i > Len(creditos) THEN acc
    ELSE LET cred == creditos[i]
             cat_id == cred.CATEGORIA
             valor(campo) == dict_get(cred, upper(campo))
             conhecida == \E n \in 1..Len(acc.categorias) : acc.categorias[n].id = cat_id
             categorias == IF conhecida THEN acc.categorias
                           ELSE Append(acc.categorias,
                                    [id |-> cat_id,
                                     nome |-> IF cat_id \in DOMAIN CATEGORIAS
                                              THEN CATEGORIAS[cat_id] ELSE "",
                                     valores |-> total_creditos_zerado,
                                     grupos |-> << >>])
         IN  creditos_da_view(creditos, i + 1,
                 [categorias |->
                      [n \in 1..Len(categorias) |->
                          IF categorias[n].id = cat_id
                          THEN [categorias[n] EXCEPT
                                    !.valores = [campo \in DOMAIN @ |-> @[campo] + valor(campo)]]
                          ELSE categorias[n]],
                  total_geral |-> [campo \in DOMAIN acc.total_geral |->
                                      acc.total_geral[campo] + valor(campo)]])

\* DespesaServico._processar_creditos: what resultado['creditos'] holds after it.
processar_creditos_view(creditos) ==
    IF Len(creditos) = 0 THEN [categorias |-> << >>, total_geral |-> "None"]
    ELSE creditos_da_view(creditos, 1, [categorias |-> << >>,
                                        total_geral |-> total_creditos_zerado])

montar_estrutura_demonstrativo(comparativo, grupos, creditos, exercicio) ==
    LET r == montar_categorias(comparativo, grupos, 1,
                 [categorias |-> << >>, total_geral |-> total_geral_zerado])
        tg == [valores_atual |-> [dotacao_inicial |-> r.total_geral.dotacao_inicial,
                                  dotacao_atualizada |-> r.total_geral.dotacao_atualizada,
                                  despesa_empenhada |-> r.total_geral.despesa_empenhada,
                                  despesa_liquidada |-> r.total_geral.despesa_liquidada,
                                  despesa_paga |-> r.total_geral.despesa_paga,
                                  saldo_dotacao |-> r.total_geral.saldo_dotacao],
               valores_anterior |-> [despesa_empenhada |-> r.total_geral.despesa_empenhada_anterior,
                                     despesa_liquidada |-> r.total_geral.despesa_liquidada_anterior,
                                     despesa_paga |-> r.total_geral.despesa_paga_anterior]]
    IN  [success |-> TRUE,
         exercicio_atual |-> exercicio,
         exercicio_anterior |-> exercicio - 1,
         demonstrativo |-> [categorias |-> r.categorias, total_geral |-> tg],
         creditos |-> processar_creditos_view(creditos),
         totais |-> [atual |-> tg.valores_atual,
                     anterior |-> tg.valores_anterior,
                     registros_atual |-> Len(comparativo),
                     registros_anterior |-> Len(comparativo)]]

\* ------------------------------------------------------------ cache files
\* Number of write() calls a pickle.dump takes: a file holds the chunks written
\* so far, and is a complete pickle when all of them come from one payload.
NChunks == 2

\* timedelta(hours=12) of CacheService.__init__
timeout_padrao == 12

\* A file of the cache directory: whether it exists, its st_mtime (hours) and
\* the chunks it holds.
ArquivoAusente == [existe |-> FALSE, mtime |-> 0, conteudo |-> << >>]

Completo(dados) == [i \in 1..NChunks |-> dados]

ArquivoCom(dados, hora) == [existe |-> TRUE, mtime |-> hora, conteudo |-> Completo(dados)]

\* open(path, 'wb') followed by a dump that fails before its first write.
ArquivoTruncado(hora) == [existe |-> TRUE, mtime |-> hora, conteudo |-> << >>]

\* pickle.load succeeds on a complete pickle and raises on anything else.
pickle_ok(conteudo) ==
    Len(conteudo) = NChunks /\ \A i \in 1..NChunks : conteudo[i] = conteudo[1]

Nenhum == [nulo |-> TRUE, dados |-> ""]
Algum(dados) == [nulo |-> FALSE, dados |-> dados]

ResultadosSalvar == {"ok", "falha_abrir", "falha_dump"}

\* CacheService.obter on the file of one key: the value returned and the file
\* afterwards.  The .timeout file of the key is neither read nor removed.
cache_obter_mutante(arq, hora) ==
    IF ~arq.existe THEN [ret |-> Nenhum, arq |-> arq]
    ELSE IF hora - arq.mtime >= timeout_padrao
         THEN [ret |-> Nenhum, arq |-> ArquivoAusente]
         ELSE IF pickle_ok(arq.conteudo)
              THEN [ret |-> Algum(arq.conteudo[1]), arq |-> arq]
              ELSE [ret |-> Nenhum, arq |-> arq]

cache_obter(arq, hora) ==
    IF ~arq.existe THEN [ret |-> Nenhum, arq |-> arq]
    ELSE IF hora - arq.mtime > timeout_padrao
         THEN [ret |-> Nenhum, arq |-> ArquivoAusente]
         ELSE IF pickle_ok(arq.conteudo)
              THEN [ret |-> Algum(arq.conteudo[1]), arq |-> arq]
              ELSE [ret |-> Nenhum, arq |-> arq]

\* CacheService.salvar on the files of one key: res is how the write went
\* (the open fails, the dump fails after the truncating open, or all is written).
cache_salvar(arq, tmo, dados, timeout_horas, hora, res) ==
    CASE res = "falha_abrir" -> [ret |-> FALSE, arq |-> arq, tmo |-> tmo]
      [] res = "falha_dump" -> [ret |-> FALSE, arq |-> ArquivoTruncado(hora), tmo |-> tmo]
      [] OTHER -> [ret |-> TRUE, arq |-> ArquivoCom(dados, hora),
                   tmo |-> IF timeout_horas # 0 THEN timeout_horas ELSE tmo]

\* CacheService.invalidar on the files of one key.
cache_invalidar(arq, tmo) ==
    IF arq.existe THEN [ret |-> TRUE, arq |-> ArquivoAusente, tmo |-> 0]
    ELSE [ret |-> FALSE, arq |-> arq, tmo |-> tmo]

\* CacheService.limpar_expirados on the files of one key: the entry is judged
\* against its .timeout file when there is one.
cache_limpar_expirados(arq, tmo, hora) ==
    LET timeout == IF tmo # 0 THEN tmo ELSE timeout_padrao
    IN  IF arq.existe /\ hora - arq.mtime > timeout
        THEN [arq |-> ArquivoAusente, tmo |-> 0]
        ELSE [arq |-> arq, tmo |-> tmo]

\* SimpleCache.carregar on the daily extract file: an unreadable file is removed.
simple_carregar_mutante(arq) ==
    IF ~arq.existe THEN [ret |-> Nenhum, arq |-> arq]
    ELSE IF pickle_ok(arq.conteudo)
         THEN [ret |-> Algum(arq.conteudo[1]), arq |-> arq]
         ELSE [ret |-> Algum(<< >>), arq |-> arq]

simple_carregar(arq) ==
    IF ~arq.existe THEN [ret |-> Nenhum, arq |-> arq]
    ELSE IF pickle_ok(arq.conteudo)
         THEN [ret |-> Algum(arq.conteudo[1]), arq |-> arq]
         ELSE [ret |-> Nenhum, arq |-> ArquivoAusente]

\* SimpleCache.salvar
simple_salvar(arq, df, hora, res) ==
    CASE res = "falha_abrir" -> [ret |-> FALSE, arq |-> arq]
      [] res = "falha_dump" -> [ret |-> FALSE, arq |-> ArquivoTruncado(hora)]
      [] OTHER -> [ret |-> TRUE, arq |-> ArquivoCom(df, hora)]

\* pd.DataFrame(results, columns=columns): the rows under a RangeIndex.
DataFrame(results) ==
    [i \in 1..Len(results) |->
        [c \in DOMAIN results[i] \cup {"idx"} |-> IF c = "idx" THEN i ELSE results[i][c]]]

\* _buscar_dados_completos: the extract returned and the daily file afterwards.
\* banco_ok is whether the query ran.  An empty DataFrame is << >>.
buscar_dados_completos_mutante(arq, results, banco_ok, hora, res) ==
    LET c == simple_carregar(arq)
    IN  IF ~banco_ok \/ Len(results) = 0 THEN [df |-> << >>, arq |-> c.arq]
        ELSE [df |-> DataFrame(results),
              arq |-> simple_salvar(c.arq, DataFrame(results), hora, res).arq]

buscar_dados_completos(arq, results, banco_ok, hora, res) ==
    LET c == simple_carregar(arq)
    IN  IF ~c.ret.nulo THEN [df |-> c.ret.dados, arq |-> c.arq]
        ELSE IF ~banco_ok \/ Len(results) = 0 THEN [df |-> << >>, arq |-> c.arq]
        ELSE [df |-> DataFrame(results),
              arq |-> simple_salvar(c.arq, DataFrame(results), hora, res).arq]

\* ------------------------------------------------------------------ state
VARIABLES
    app,            \* which application the process runs: app.py or backend
    banco,          \* rows the ledger query returns (the external source)
    visao,          \* rows the database views return: comparativo, grupos, ugs
    req,            \* the request being served: exercicio, mes, ug
    dados_pkl,      \* SimpleCache: the daily extract file
    pkl,            \* CacheService: the .pkl file of each key
    timeout_file,   \* CacheService: the .timeout file of each key (0: none)
    agora,          \* the clock, in hours
    resultado,      \* what the last call returned
    threads,        \* concurrent requests: the call each is in and where it stands
    ultimo          \* payload of the last salvar that returned True ("" if none)

vars == << app, banco, visao, req, dados_pkl, pkl, timeout_file, agora, resultado,
           threads, ultimo >>

\* Cache keys are written piece by piece, a separator being a piece of its own.
\* The demonstrativo key of the request, and the list of units.
ChaveDemonstrativo == << "demonstrativo" >>

ChaveUgs == << "ugs", "_", "disponiveis" >>

\* The keys callers pass to CacheService: _get_cache_path takes any string.
Chaves == {ChaveDemonstrativo, ChaveUgs, << "ugs", "/", "disponiveis" >>}

\* CacheService._get_cache_path: key.replace('/', '_').replace('\\', '_'); the
\* result names the .pkl file (and, with the other suffix, the .timeout file).
get_cache_path(key) ==
    [i \in 1..Len(key) |-> IF key[i] \in {"/", "\\"} THEN "_" ELSE key[i]]

\* The files the cache directory can hold.
Caminhos == { get_cache_path(k) : k \in Chaves }

\* ------------------------------------------------------------ input domains
VA == [DOTACAO_INICIAL |-> 100, DOTACAO_ADICIONAL |-> 20, CANCELAMENTO_DOTACAO |-> -5,
       CANCEL_REMANEJA_DOTACAO |-> -3, DESPESA_EMPENHADA |-> 50, DESPESA_LIQUIDADA |-> 30,
       DESPESA_PAGA |-> 10,
       CREDITO_SUPLEMENTAR |-> 16, CREDITO_ESPECIAL_ABERTO |-> 8,
       CREDITO_ESPECIAL_REABERTO |-> 4, CREDITO_EXTRAORD_REABERTO |-> 2,
       CANCEL_CREDITO_SUPLEMENTAR |-> -5, REMANEJAMENTO_VETO_LEI |-> -3,
       CANCEL_CREDITO_ESPECIAL |-> -2]
VB == [DOTACAO_INICIAL |-> 7, DOTACAO_ADICIONAL |-> 0, CANCELAMENTO_DOTACAO |-> 0,
       CANCEL_REMANEJA_DOTACAO |-> -1, DESPESA_EMPENHADA |-> 4, DESPESA_LIQUIDADA |-> 2,
       DESPESA_PAGA |-> 1,
       CREDITO_SUPLEMENTAR |-> 1, CREDITO_ESPECIAL_ABERTO |-> 0,
       CREDITO_ESPECIAL_REABERTO |-> 0, CREDITO_EXTRAORD_REABERTO |-> 0,
       CANCEL_CREDITO_SUPLEMENTAR |-> -1, REMANEJAMENTO_VETO_LEI |-> 0,
       CANCEL_CREDITO_ESPECIAL |-> 0]

\* A row whose monetary columns are all zero.
VZ == [c \in DOMAIN VA |-> 0]

Linha(ano, mes, ug, cat, grupo, nat, v) ==
    [COEXERCICIO |-> ano, INMES |-> mes, COUG |-> ug, CATEGORIA |-> cat, GRUPO |-> grupo,
     CONATUREZA |-> nat, v |-> v]

\* Rows that differ in how the fiscal year and the month are held.
LinhasPeriodo ==
    { Linha(a, m, CelInt(1), "3", "1", 1, VA) :
        a \in {CelInt(2024), CelInt(2025), CelStr(<< "2", "0", "2", "5" >>), CelNan},
        m \in {CelInt(1), CelInt(2), CelNan} }

\* Rows that differ in how the unit code is held.
LinhasUnidade ==
    { Linha(a, CelInt(1), u, "3", "1", 1, VA) :
        a \in {CelInt(2024), CelInt(2025)},
        u \in {CelInt(1), CelStr(<< " ", "1", " " >>), CelStr(<< "2" >>), CelInt(12)} }

\* Rows that differ in their classification: registered pairs, a group not
\* registered under its category, the category without groups, an unknown
\* category; and a second nature code within one group.
Classificacoes == { << "3", "1", 1 >>, << "3", "1", 2 >>, << "3", "4", 1 >>,
                    << "4", "4", 1 >>, << "9", "9", 1 >>, << "7", "1", 1 >> }

LinhasClassificacao ==
    { Linha(CelInt(2025), CelInt(1), CelInt(1), c[1], c[2], c[3], VA) : c \in Classificacoes }
    \cup
    { Linha(CelInt(2024), CelInt(1), CelInt(1), c[1], c[2], c[3], VB) : c \in Classificacoes }
    \cup
    { Linha(CelInt(2025), CelInt(1), CelInt(1), "4", "4", 1, VZ) }

SeqAte(S, n) == UNION { [1..k -> S] : k \in 0..n }

Ugs == {UgNone, UgStr(CONSOLIDADO), UgStr(<< "1" >>), UgStr(<< "2", " " >>)}

Requisicao(exercicio, mes, ug) == [exercicio |-> exercicio, mes |-> mes, ug |-> ug]

\* Rows of VW_COMPARATIVO_ANUAL and VW_DESPESA_RESUMO_GRUPO.
LinhaComparativo(cat, ini, atu, emp, liq, pag, empa, liqa, paga) ==
    [CATEGORIA |-> cat, NOME_CATEGORIA |-> "",
     DOTACAO_INICIAL |-> ini, DOTACAO_ATUALIZADA |-> atu, DESPESA_EMPENHADA |-> emp,
     DESPESA_LIQUIDADA |-> liq, DESPESA_PAGA |-> pag,
     DESPESA_EMPENHADA_ANTERIOR |-> empa, DESPESA_LIQUIDADA_ANTERIOR |-> liqa,
     DESPESA_PAGA_ANTERIOR |-> paga, SALDO_DOTACAO |-> atu - emp]

LinhaGrupo(ano, cat, grupo, ini, adi, atu, emp, liq, pag) ==
    [EXERCICIO |-> ano, CATEGORIA |-> cat, GRUPO |-> grupo, NOME_GRUPO |-> "",
     DOTACAO_INICIAL |-> ini, DOTACAO_ADICIONAL |-> adi, DOTACAO_ATUALIZADA |-> atu,
     DESPESA_EMPENHADA |-> emp, DESPESA_LIQUIDADA |-> liq, DESPESA_PAGA |-> pag,
     SALDO_DOTACAO |-> atu - emp]

LinhasComparativo ==
    { LinhaComparativo("3", 100, 112, 50, 30, 10, 40, 20, 5),
      LinhaComparativo("3", 7, 6, 4, 2, 1, 3, 2, 1),
      LinhaComparativo("4", 60, 60, 9, 8, 0, 0, 0, 0) }

\* Rows of VW_DESPESA_RESUMO_GRUPO, of the requested year and of the year before.
LinhasGrupo ==
    { LinhaGrupo(2025, "3", "1", 100, 20, 112, 50, 30, 10),
      LinhaGrupo(2025, "3", "3", 7, 0, 6, 4, 2, 1),
      LinhaGrupo(2025, "4", "4", 60, 0, 60, 9, 8, 0),
      LinhaGrupo(2024, "3", "1", 90, 0, 90, 40, 20, 5) }

\* Rows of VW_CREDITOS_ADICIONAIS; TOTAL_ALTERACOES is the view's own column.
LinhaCredito(cat, grupo, sup, esp_aberto, esp_reaberto, ext_reaberto, canc_sup, rem, canc_esp) ==
    [CATEGORIA |-> cat, GRUPO |-> grupo,
     CREDITO_SUPLEMENTAR |-> sup, CREDITO_ESPECIAL_ABERTO |-> esp_aberto,
     CREDITO_ESPECIAL_REABERTO |-> esp_reaberto, CREDITO_EXTRAORD_REABERTO |-> ext_reaberto,
     CANCEL_CREDITO_SUPLEMENTAR |-> canc_sup, REMANEJAMENTO_VETO_LEI |-> rem,
     CANCEL_CREDITO_ESPECIAL |-> canc_esp,
     TOTAL_ALTERACOES |-> sup + esp_aberto + esp_reaberto + ext_reaberto + canc_sup + rem
                          + canc_esp]

LinhasCredito ==
    { LinhaCredito("3", "1", 16, 8, 4, 0, -5, -3, -2),
      LinhaCredito("3", "3", 1, 0, 0, 2, -1, 0, 0),
      LinhaCredito("4", "4", 9, 0, 0, 0, 0, 0, 0) }

\* What the three views return to one request: category and group rows, or
\* credit rows next to one category row.
VisoesBackend ==
    [comparativo : SeqAte(LinhasComparativo, MaxViewRows),
     grupos : SeqAte(LinhasGrupo, MaxViewRows),
     ugs : {<< >>}, creditos : {<< >>}]
    \cup
    [comparativo : { << LinhaComparativo("3", 100, 112, 50, 30, 10, 40, 20, 5) >> },
     grupos : {<< >>},
     ugs : {<< >>}, creditos : SeqAte(LinhasCredito, MaxViewRows) \ {<< >>}]

SemResultado ==
    [via |-> "nenhum", success |-> FALSE,
     demonstrativo |-> [categorias |-> << >>, total_geral |-> "None"],
     creditos |-> [categorias |-> << >>, total_geral |-> "None"],
     totais |-> "None", extrato |-> << >>, mask_atual |-> << >>, mask_anterior |-> << >>,
     df_atual |-> << >>, df_anterior |-> << >>]

\* The extract with the requests asked of it.
EntradasLegado ==
    (SeqAte(LinhasPeriodo, MaxRows) \X { Requisicao(2025, m, UgNone) : m \in {1, 2} })
    \cup (SeqAte(LinhasUnidade, MaxRows) \X { Requisicao(2025, 1, u) : u \in Ugs })
    \cup (SeqAte(LinhasClassificacao, MaxRows) \X { Requisicao(2025, 1, UgNone) })

Init ==
    /\ \/ /\ app = "legado"
          /\ \E e \in EntradasLegado : banco = e[1] /\ req = e[2]
          /\ visao = [comparativo |-> << >>, grupos |-> << >>, ugs |-> << >>, creditos |-> << >>]
       \/ /\ app = "backend"
          /\ banco = << >>
          /\ visao \in VisoesBackend
          /\ req = Requisicao(2025, 1, UgNone)
    /\ dados_pkl = ArquivoAusente
    /\ pkl = [k \in Caminhos |-> ArquivoAusente]
    /\ timeout_file = [k \in Caminhos |-> 0]
    /\ agora = 0
    /\ resultado = SemResultado
    /\ threads = << >>
    /\ ultimo = ""

\* ------------------------------------------------------ raw-row entry point
\* _estrutura_vazia
estrutura_vazia ==
    [SemResultado EXCEPT !.via = "raw"]

\* processar_dados_comparativo on the extract df (lines 149-255).  Besides the
\* response, the record keeps the extract and the slices the call worked on:
\* the slices after the year/month masks, and after the unit filter.
dados_comparativo(df, exercicio, mes, ug) ==
    IF Len(df) = 0 THEN estrutura_vazia
    ELSE LET dfn == normalizar(df)
             m_atual == SelectSeq(dfn, LAMBDA r : mask_atual(r, exercicio, mes))
             m_anterior == SelectSeq(dfn, LAMBDA r : mask_anterior(r, exercicio, mes))
             ug_str == strip(ug.s)
             df_atual == IF filtra_ug(ug) THEN Filtrar(m_atual, "COUG", ug_str) ELSE m_atual
             df_anterior == IF filtra_ug(ug) THEN Filtrar(m_anterior, "COUG", ug_str)
                            ELSE m_anterior
         IN  IF Len(df_atual) = 0 /\ Len(df_anterior) = 0
             THEN [estrutura_vazia EXCEPT !.extrato = df, !.mask_atual = m_atual,
                                          !.mask_anterior = m_anterior]
             ELSE [via |-> "raw", success |-> TRUE,
                   demonstrativo |-> processar_demonstrativo(df_atual, df_anterior),
                   creditos |-> processar_creditos(df_atual),
                   totais |-> calcular_totais_cards(df_atual, df_anterior),
                   extrato |-> df, mask_atual |-> m_atual, mask_anterior |-> m_anterior,
                   df_atual |-> df_atual, df_anterior |-> df_anterior]

\* One call of processar_dados_comparativo: banco_ok is whether the ledger
\* query runs, res how the cache write goes.
ProcessarDadosComparativoCom(banco_ok, res) ==
    LET b == buscar_dados_completos(dados_pkl, banco, banco_ok, agora, res)
    IN  /\ app = "legado"
        /\ dados_pkl' = b.arq
        /\ resultado' = dados_comparativo(b.df, req.exercicio, req.mes, req.ug)
        /\ UNCHANGED << threads, ultimo, app, banco, visao, req, pkl, timeout_file, agora >>

ProcessarDadosComparativo ==
    \E banco_ok \in BOOLEAN, res \in ResultadosSalvar :
        ProcessarDadosComparativoCom(banco_ok, res)

\* ---------------------------------------------------------- view entry point
\* _estrutura_erro
estrutura_erro ==
    [SemResultado EXCEPT !.via = "view"]

\* The response of obter_demonstrativo_comparativo built from the view rows.
resposta_view(comparativo, grupos, creditos, exercicio) ==
    LET m == montar_estrutura_demonstrativo(comparativo, grupos, creditos, exercicio)
    IN  [via |-> "view", success |-> m.success,
         demonstrativo |-> m.demonstrativo, creditos |-> m.creditos, totais |-> m.totais,
         extrato |-> << >>, mask_atual |-> << >>, mask_anterior |-> << >>,
         df_atual |-> << >>, df_anterior |-> << >>]

\* obter_demonstrativo_comparativo: cache lookup, else the three view queries,
\* the assembly and the cache write.  banco_ok is whether the queries ran, res
\* how the cache write goes.
ObterDemonstrativoComparativoCom(banco_ok, res) ==
    LET cache_key == ChaveDemonstrativo
        o == cache_obter(pkl[get_cache_path(cache_key)], agora)
        montado == resposta_view(visao.comparativo,
                                 obter_resumo_grupo(visao.grupos, req.exercicio),
                                 visao.creditos, req.exercicio)
        s == cache_salvar(o.arq, timeout_file[get_cache_path(cache_key)], montado, 0, agora, res)
    IN  /\ app = "backend"
        /\ IF ~o.ret.nulo
           THEN /\ resultado' = o.ret.dados
                /\ pkl' = [pkl EXCEPT ![get_cache_path(cache_key)] = o.arq]
                /\ UNCHANGED << threads, ultimo, app, banco, visao, req, dados_pkl,
                                timeout_file, agora >>
           ELSE IF ~banco_ok
           THEN /\ resultado' = estrutura_erro
                /\ pkl' = [pkl EXCEPT ![get_cache_path(cache_key)] = o.arq]
                /\ UNCHANGED << threads, ultimo, app, banco, visao, req, dados_pkl,
                                timeout_file, agora >>
           ELSE /\ resultado' = montado
                /\ pkl' = [pkl EXCEPT ![get_cache_path(cache_key)] = s.arq]
                /\ timeout_file' = [timeout_file EXCEPT ![get_cache_path(cache_key)] = s.tmo]
                /\ UNCHANGED << threads, ultimo, app, banco, visao, req, dados_pkl, agora >>

ObterDemonstrativoComparativo ==
    \E banco_ok \in BOOLEAN, res \in ResultadosSalvar :
        ObterDemonstrativoComparativoCom(banco_ok, res)

\* ------------------------------------------------ CacheService, call by call
\* Payloads handed to salvar: lists of units as obter_ugs_disponiveis formats them.
Ug(codigo, nome) == [codigo |-> codigo, nome |-> nome, tem_movimento |-> TRUE]
Dados == { << Ug(2, "B") >> }

LinhasUg == { [COUG |-> 1, NOUG |-> "A"] }

\* What a call saw and returned: the operation, its key, the value returned,
\* the entry as the call found it (existence, age, readability, content,
\* .timeout) and whether the entry exists when the call returns.
Chamada(op, chave, ret, arq, tmo, hora, depois) ==
    [op |-> op, chave |-> chave, ret |-> ret,
     existia |-> arq.existe,
     idade |-> IF arq.existe THEN hora - arq.mtime ELSE 0,
     integro |-> arq.existe /\ pickle_ok(arq.conteudo),
     guardado |-> arq.conteudo,
     tmo |-> tmo,
     existe |-> depois.existe]

InitCache ==
    /\ app = "backend"
    /\ banco = << >>
    /\ visao \in [comparativo : {<< >>}, grupos : {<< >>}, ugs : SeqAte(LinhasUg, 1),
                 creditos : {<< >>}]
    /\ req = Requisicao(2025, 1, UgNone)
    /\ dados_pkl = ArquivoAusente
    /\ pkl = [k \in Caminhos |-> ArquivoAusente]
    /\ timeout_file = [k \in Caminhos |-> 0]
    /\ agora = 0
    /\ resultado = Chamada("nenhuma", << >>, Nenhum, ArquivoAusente, 0, 0, ArquivoAusente)
    /\ threads = << >>
    /\ ultimo = ""

Obter(k) ==
    LET cache_path == get_cache_path(k)
        o == cache_obter(pkl[cache_path], agora)
    IN  /\ pkl' = [pkl EXCEPT ![cache_path] = o.arq]
        /\ resultado' = Chamada("obter", k, o.ret, pkl[cache_path],
                                timeout_file[cache_path], agora, o.arq)
        /\ UNCHANGED << threads, ultimo, app, banco, visao, req, dados_pkl, timeout_file, agora >>

Salvar(k, dados, timeout_horas, res) ==
    LET cache_path == get_cache_path(k)
        s == cache_salvar(pkl[cache_path], timeout_file[cache_path], dados, timeout_horas,
                          agora, res)
    IN  /\ pkl' = [pkl EXCEPT ![cache_path] = s.arq]
        /\ timeout_file' = [timeout_file EXCEPT ![cache_path] = s.tmo]
        /\ resultado' = Chamada("salvar", k, [nulo |-> ~s.ret, dados |-> ""],
                                pkl[cache_path], timeout_file[cache_path], agora, s.arq)
        /\ UNCHANGED << threads, ultimo, app, banco, visao, req, dados_pkl, agora >>

Invalidar(k) ==
    LET cache_path == get_cache_path(k)
        i == cache_invalidar(pkl[cache_path], timeout_file[cache_path])
    IN  /\ pkl' = [pkl EXCEPT ![cache_path] = i.arq]
        /\ timeout_file' = [timeout_file EXCEPT ![cache_path] = i.tmo]
        /\ resultado' = Chamada("invalidar", k, [nulo |-> ~i.ret, dados |-> ""],
                                pkl[cache_path], timeout_file[cache_path], agora, i.arq)
        /\ UNCHANGED << threads, ultimo, app, banco, visao, req, dados_pkl, agora >>

\* DespesaServico.limpar_cache -> CacheService.limpar_tudo
LimparTudo ==
    /\ pkl' = [k \in Caminhos |-> ArquivoAusente]
    /\ timeout_file' = [k \in Caminhos |-> 0]
    /\ resultado' = Chamada("limpar_tudo", << >>, Nenhum, ArquivoAusente, 0, agora, ArquivoAusente)
    /\ UNCHANGED << threads, ultimo, app, banco, visao, req, dados_pkl, agora >>

LimparExpirados ==
    /\ pkl' = [k \in Caminhos |-> cache_limpar_expirados(pkl[k], timeout_file[k], agora).arq]
    /\ timeout_file' = [k \in Caminhos |->
                           cache_limpar_expirados(pkl[k], timeout_file[k], agora).tmo]
    /\ resultado' = Chamada("limpar_expirados", << >>, Nenhum, ArquivoAusente, 0, agora, ArquivoAusente)
    /\ UNCHANGED << threads, ultimo, app, banco, visao, req, dados_pkl, agora >>

\* DespesaServico.obter_ugs_disponiveis: the list is cached for 24 hours.  An
\* empty cached list is falsy and fetched again; a failing query raises.
ObterUgsDisponiveis ==
    \E banco_ok \in BOOLEAN, res \in ResultadosSalvar :
        LET cache_key == ChaveUgs
            o == cache_obter(pkl[get_cache_path(cache_key)], agora)
            lista == [i \in 1..Len(visao.ugs) |-> Ug(visao.ugs[i].COUG, visao.ugs[i].NOUG)]
            s == cache_salvar(o.arq, timeout_file[get_cache_path(cache_key)], lista, 24, agora, res)
            visto == Chamada("obter_ugs_disponiveis", cache_key, o.ret, pkl[get_cache_path(cache_key)],
                             timeout_file[get_cache_path(cache_key)], agora, o.arq)
        IN  IF ~o.ret.nulo /\ o.ret.dados # << >>
            THEN /\ resultado' = visto
                 /\ pkl' = [pkl EXCEPT ![get_cache_path(cache_key)] = o.arq]
                 /\ UNCHANGED << threads, ultimo, app, banco, visao, req, dados_pkl, timeout_file, agora >>
            ELSE IF ~banco_ok
            THEN /\ resultado' = [visto EXCEPT !.op = "obter_ugs_disponiveis_erro",
                                               !.ret = Nenhum]
                 /\ pkl' = [pkl EXCEPT ![get_cache_path(cache_key)] = o.arq]
                 /\ UNCHANGED << threads, ultimo, app, banco, visao, req, dados_pkl, timeout_file, agora >>
            ELSE /\ resultado' = [visto EXCEPT !.ret = Algum(lista), !.existe = s.arq.existe]
                 /\ pkl' = [pkl EXCEPT ![get_cache_path(cache_key)] = s.arq]
                 /\ timeout_file' = [timeout_file EXCEPT ![get_cache_path(cache_key)] = s.tmo]
                 /\ UNCHANGED << threads, ultimo, app, banco, visao, req, dados_pkl, agora >>

\* Time passes.
Passar ==
    /\ agora + Passo <= MaxHora
    /\ agora' = agora + Passo
    /\ UNCHANGED << threads, ultimo, app, banco, visao, req, dados_pkl, pkl, timeout_file, resultado >>

NextCache ==
    \/ \E k \in Chaves : Obter(k)
    \/ \E k \in Chaves, dados \in Dados, timeout_horas \in {0, 24}, res \in ResultadosSalvar :
          Salvar(k, dados, timeout_horas, res)
    \/ \E k \in Chaves : Invalidar(k)
    \/ LimparTudo
    \/ LimparExpirados
    \/ ObterUgsDisponiveis
    \/ Passar

\* ------------------------------------- concurrent requests on one cache entry
\* Each request thread makes one cache call and runs it one file-system
\* operation at a time.  The threads of the backend share the .pkl file of one
\* key; the threads of app.py share the daily extract file.  The payloads are
\* large enough for pickle.dump to reach the file in NChunks writes.
Threads == 1..NThreads

ChaveConc == ChaveDemonstrativo

\* The payload thread t saves.
Payload(t) == << "d1", "d2", "d3", "d4" >>[t]

ThreadInicial ==
    [op |-> "nenhuma", pc |-> "inicio", fd |-> "fechado", pos |-> 1, ret |-> "", exc |-> ""]

\* The file the threads share.
Arq == IF app = "legado" THEN dados_pkl ELSE pkl[get_cache_path(ChaveConc)]

PoeArq(a) ==
    IF app = "legado"
    THEN dados_pkl' = a /\ pkl' = pkl
    ELSE pkl' = [pkl EXCEPT ![get_cache_path(ChaveConc)] = a] /\ dados_pkl' = dados_pkl

\* Path.unlink: the name is gone; descriptors open on the file keep the
\* unlinked inode, and what is written through them is never seen again.
Remover(th) ==
    [u \in Threads |-> IF th[u].fd = "ligado" THEN [th[u] EXCEPT !.fd = "orfao"] ELSE th[u]]

\* A write of one chunk at the descriptor's own offset.
Escrever(conteudo, pos, dados) ==
    [i \in 1..(IF Len(conteudo) > pos THEN Len(conteudo) ELSE pos) |->
        IF i = pos THEN dados
        ELSE IF i <= Len(conteudo) THEN conteudo[i] ELSE "buraco"]

\* A file that holds all its chunks, written by different dumps.
misturado(conteudo) ==
    /\ Len(conteudo) = NChunks
    /\ \A i \in 1..NChunks : conteudo[i] # "buraco"
    /\ ~pickle_ok(conteudo)

Retorna(th, t, ret) == [th EXCEPT ![t].pc = "fim", ![t].ret = ret, ![t].fd = "fechado"]
Levanta(th, t, exc) == [th EXCEPT ![t].pc = "fim", ![t].exc = exc, ![t].fd = "fechado"]
Segue(th, t, pc) == [th EXCEPT ![t].pc = pc]

Operacoes ==
    IF app = "legado" THEN {"carregar", "simple_salvar"}
    ELSE {"obter", "salvar", "invalidar", "limpar_tudo"}

InitConc ==
    /\ app \in {"legado", "backend"}
    /\ banco = << >>
    /\ visao = [comparativo |-> << >>, grupos |-> << >>, ugs |-> << >>, creditos |-> << >>]
    /\ req = Requisicao(2025, 1, UgNone)
    /\ agora = 2 * Passo
    /\ \E a \in {ArquivoAusente, ArquivoCom("antigo", 0), ArquivoCom("antigo", agora)} :
          /\ dados_pkl = IF app = "legado" THEN a ELSE ArquivoAusente
          /\ pkl = [k \in Caminhos |->
                       IF app = "backend" /\ k = get_cache_path(ChaveConc) THEN a ELSE ArquivoAusente]
    /\ timeout_file = [k \in Caminhos |-> 0]
    /\ resultado = Chamada("nenhuma", << >>, Nenhum, ArquivoAusente, 0, 0, ArquivoAusente)
    /\ threads = [t \in Threads |-> ThreadInicial]
    /\ ultimo = ""

Inalterado == UNCHANGED << app, banco, visao, req, timeout_file, agora, resultado >>

\* A request enters a cache call.
Chamar(t, op) ==
    /\ threads[t].pc = "inicio"
    /\ op \in Operacoes
    /\ threads' = [threads EXCEPT ![t].op = op,
                                  ![t].pc = CASE op \in {"obter", "invalidar", "carregar"}
                                                    -> "exists"
                                              [] op \in {"salvar", "simple_salvar"} -> "open"
                                              [] OTHER -> "glob"]
    /\ UNCHANGED << dados_pkl, pkl, ultimo >>
    /\ Inalterado

\* CacheService.obter: cache_path.exists()
ObterExists(t) ==
    /\ threads[t].op = "obter" /\ threads[t].pc = "exists"
    /\ threads' = IF Arq.existe THEN Segue(threads, t, "stat")
                  ELSE Retorna(threads, t, "None")
    /\ UNCHANGED << dados_pkl, pkl, ultimo >>
    /\ Inalterado

\* CacheService.obter: cache_path.stat().st_mtime and the comparison with
\* timeout_padrao, outside any try.
ObterStat(t) ==
    /\ threads[t].op = "obter" /\ threads[t].pc = "stat"
    /\ threads' = IF ~Arq.existe THEN Levanta(threads, t, "FileNotFoundError")
                  ELSE IF agora - Arq.mtime > timeout_padrao
                       THEN Segue(threads, t, "unlink")
                       ELSE Segue(threads, t, "load")
    /\ UNCHANGED << dados_pkl, pkl, ultimo >>
    /\ Inalterado

\* CacheService.obter: cache_path.unlink() of the entry judged expired, outside
\* any try.
ObterUnlink(t) ==
    /\ threads[t].op = "obter" /\ threads[t].pc = "unlink"
    /\ IF ~Arq.existe
       THEN /\ threads' = Levanta(threads, t, "FileNotFoundError")
            /\ UNCHANGED << dados_pkl, pkl >>
       ELSE /\ threads' = Retorna(Remover(threads), t, "None")
            /\ PoeArq(ArquivoAusente)
    /\ UNCHANGED ultimo
    /\ Inalterado

\* CacheService.obter: open(cache_path, 'rb') and pickle.load inside the try.
\* A file mixed from two dumps may fail to load or load as a value neither
\* writer saved.
ObterLoad(t) ==
    /\ threads[t].op = "obter" /\ threads[t].pc = "load"
    /\ \E ret \in IF Arq.existe /\ pickle_ok(Arq.conteudo) THEN {Arq.conteudo[1]}
                  ELSE IF Arq.existe /\ misturado(Arq.conteudo) THEN {"None", "misto"}
                  ELSE {"None"} :
          threads' = Retorna(threads, t, ret)
    /\ UNCHANGED << dados_pkl, pkl, ultimo >>
    /\ Inalterado

\* CacheService.salvar: open(cache_path, 'wb') creates the file or truncates it.
SalvarOpen(t) ==
    /\ threads[t].op = "salvar" /\ threads[t].pc = "open"
    /\ PoeArq(ArquivoTruncado(agora))
    /\ threads' = [threads EXCEPT ![t].pc = "write", ![t].fd = "ligado", ![t].pos = 1]
    /\ UNCHANGED ultimo
    /\ Inalterado

\* CacheService.salvar: one write of pickle.dump.
SalvarWrite(t) ==
    /\ threads[t].op = "salvar" /\ threads[t].pc = "write"
    /\ IF threads[t].fd = "ligado"
       THEN PoeArq([Arq EXCEPT !.mtime = agora,
                               !.conteudo = Escrever(@, threads[t].pos, Payload(t))])
       ELSE UNCHANGED << dados_pkl, pkl >>
    /\ threads' = [threads EXCEPT ![t].pos = @ + 1,
                                  ![t].pc = IF threads[t].pos = NChunks THEN "close"
                                            ELSE "write"]
    /\ UNCHANGED ultimo
    /\ Inalterado

\* CacheService.salvar: the with block closes the file; no timeout_horas for
\* this key; return True.
SalvarClose(t) ==
    /\ threads[t].op = "salvar" /\ threads[t].pc = "close"
    /\ threads' = Retorna(threads, t, "True")
    /\ ultimo' = Payload(t)
    /\ UNCHANGED << dados_pkl, pkl >>
    /\ Inalterado

\* CacheService.invalidar: cache_path.exists()
InvalidarExists(t) ==
    /\ threads[t].op = "invalidar" /\ threads[t].pc = "exists"
    /\ threads' = IF Arq.existe THEN Segue(threads, t, "unlink")
                  ELSE Retorna(threads, t, "False")
    /\ UNCHANGED << dados_pkl, pkl, ultimo >>
    /\ Inalterado

\* CacheService.invalidar: cache_path.unlink(); the key has no .timeout file.
InvalidarUnlink(t) ==
    /\ threads[t].op = "invalidar" /\ threads[t].pc = "unlink"
    /\ IF ~Arq.existe
       THEN /\ threads' = Levanta(threads, t, "FileNotFoundError")
            /\ UNCHANGED << dados_pkl, pkl >>
       ELSE /\ threads' = Retorna(Remover(threads), t, "True")
            /\ PoeArq(ArquivoAusente)
    /\ UNCHANGED ultimo
    /\ Inalterado

\* CacheService.limpar_tudo: glob("*.pkl") lists the files there are.
LimparTudoGlob(t) ==
    /\ threads[t].op = "limpar_tudo" /\ threads[t].pc = "glob"
    /\ threads' = IF Arq.existe THEN Segue(threads, t, "unlink")
                  ELSE Retorna(threads, t, "None")
    /\ UNCHANGED << dados_pkl, pkl, ultimo >>
    /\ Inalterado

\* CacheService.limpar_tudo: arquivo.unlink() of a listed file.
LimparTudoUnlink(t) ==
    /\ threads[t].op = "limpar_tudo" /\ threads[t].pc = "unlink"
    /\ IF ~Arq.existe
       THEN /\ threads' = Levanta(threads, t, "FileNotFoundError")
            /\ UNCHANGED << dados_pkl, pkl >>
       ELSE /\ threads' = Retorna(Remover(threads), t, "None")
            /\ PoeArq(ArquivoAusente)
    /\ UNCHANGED ultimo
    /\ Inalterado

\* SimpleCache.carregar: self.existe()
CarregarExiste(t) ==
    /\ threads[t].op = "carregar" /\ threads[t].pc = "exists"
    /\ threads' = IF Arq.existe THEN Segue(threads, t, "load")
                  ELSE Retorna(threads, t, "None")
    /\ UNCHANGED << dados_pkl, pkl, ultimo >>
    /\ Inalterado

\* SimpleCache.carregar: open and pickle.load inside the try; a failure goes
\* on to remove the file.
CarregarLoad(t) ==
    /\ threads[t].op = "carregar" /\ threads[t].pc = "load"
    /\ \/ /\ Arq.existe /\ pickle_ok(Arq.conteudo)
          /\ threads' = Retorna(threads, t, Arq.conteudo[1])
       \/ /\ Arq.existe /\ misturado(Arq.conteudo)
          /\ threads' = Retorna(threads, t, "misto")
       \/ /\ ~(Arq.existe /\ pickle_ok(Arq.conteudo))
          /\ threads' = Segue(threads, t, "unlink")
    /\ UNCHANGED << dados_pkl, pkl, ultimo >>
    /\ Inalterado

\* SimpleCache.carregar: self.cache_file.unlink() in the except, its own
\* failure swallowed; return None.
CarregarUnlink(t) ==
    /\ threads[t].op = "carregar" /\ threads[t].pc = "unlink"
    /\ IF ~Arq.existe
       THEN /\ threads' = Retorna(threads, t, "None")
            /\ UNCHANGED << dados_pkl, pkl >>
       ELSE /\ threads' = Retorna(Remover(threads), t, "None")
            /\ PoeArq(ArquivoAusente)
    /\ UNCHANGED ultimo
    /\ Inalterado

\* SimpleCache.salvar: open(self.cache_file, 'wb')
SimpleSalvarOpen(t) ==
    /\ threads[t].op = "simple_salvar" /\ threads[t].pc = "open"
    /\ PoeArq(ArquivoTruncado(agora))
    /\ threads' = [threads EXCEPT ![t].pc = "write", ![t].fd = "ligado", ![t].pos = 1]
    /\ UNCHANGED ultimo
    /\ Inalterado

\* SimpleCache.salvar: one write of pickle.dump.
SimpleSalvarWrite(t) ==
    /\ threads[t].op = "simple_salvar" /\ threads[t].pc = "write"
    /\ IF threads[t].fd = "ligado"
       THEN PoeArq([Arq EXCEPT !.mtime = agora,
                               !.conteudo = Escrever(@, threads[t].pos, Payload(t))])
       ELSE UNCHANGED << dados_pkl, pkl >>
    /\ threads' = [threads EXCEPT ![t].pos = @ + 1,
                                  ![t].pc = IF threads[t].pos = NChunks THEN "close"
                                            ELSE "write"]
    /\ UNCHANGED ultimo
    /\ Inalterado

\* SimpleCache.salvar: the file is closed and self.cache_file.stat() sizes it
\* for the log; a file removed meanwhile makes the call return False.
SimpleSalvarStat(t) ==
    /\ threads[t].op = "simple_salvar" /\ threads[t].pc = "close"
    /\ IF Arq.existe
       THEN threads' = Retorna(threads, t, "True") /\ ultimo' = Payload(t)
       ELSE threads' = Retorna(threads, t, "False") /\ ultimo' = ultimo
    /\ UNCHANGED << dados_pkl, pkl >>
    /\ Inalterado

NextConc ==
    \E t \in Threads :
        \/ \E op \in {"obter", "salvar", "invalidar", "limpar_tudo",
                      "carregar", "simple_salvar"} : Chamar(t, op)
        \/ ObterExists(t)
        \/ ObterStat(t)
        \/ ObterUnlink(t)
        \/ ObterLoad(t)
        \/ SalvarOpen(t)
        \/ SalvarWrite(t)
        \/ SalvarClose(t)
        \/ InvalidarExists(t)
        \/ InvalidarUnlink(t)
        \/ LimparTudoGlob(t)
        \/ LimparTudoUnlink(t)
        \/ CarregarExiste(t)
        \/ CarregarLoad(t)
        \/ CarregarUnlink(t)
        \/ SimpleSalvarOpen(t)
        \/ SimpleSalvarWrite(t)
        \/ SimpleSalvarStat(t)

\* --------------------------------------------------------- specifications
Next ==
    \/ ProcessarDadosComparativo
    \/ ObterDemonstrativoComparativo

Spec == Init /\ [][Next]_vars

SpecCache == InitCache /\ [][NextCache]_vars

SpecConc == InitConc /\ [][NextConc]_vars

\* ------------------------------------------------------------------ claims
Lados == {"valores_atual", "valores_anterior"}

\* Sum of one field of one side over a sequence of nodes.
RECURSIVE SomaNos(_, _, _)
SomaNos(nos, lado, f) ==
    IF Len(nos) = 0 THEN 0 ELSE nos[1][lado][f] + SomaNos(Tail(nos), lado, f)

Arvore == resultado.demonstrativo

Indices(seq) == { seq[i].idx : i \in 1..Len(seq) }

\* C1: in every tree returned by either entry point, each field of the grand
\* total (current and prior) is the sum of that field over the category nodes.
C1_TotalGeralSomaCategorias ==
    resultado.success =>
        \A lado \in Lados : \A f \in DOMAIN Arvore.total_geral[lado] :
            Arvore.total_geral[lado][f] = SomaNos(Arvore.categorias, lado, f)

C1_Witness ==
    /\ resultado.success
    /\ resultado.via = "raw"
    /\ Len(Arvore.categorias) = 2
    /\ Arvore.categorias[1].valores_atual.dotacao_inicial > 0
    /\ Arvore.categorias[2].valores_anterior.despesa_paga > 0

\* C2: in every tree of the raw-row path, each field of a category (current and
\* prior) is the sum of that field over the category's group nodes.
C2_CategoriaSomaGrupos ==
    (resultado.success /\ resultado.via = "raw") =>
        \A i \in 1..Len(Arvore.categorias) : \A lado \in Lados :
            \A f \in DOMAIN Arvore.categorias[i][lado] :
                Arvore.categorias[i][lado][f] = SomaNos(Arvore.categorias[i].grupos, lado, f)

\* C3: in every tree of the raw-row path, each field of a group (current and
\* prior) is the sum of that field over the group's detail nodes.
C3_GrupoSomaDetalhes ==
    (resultado.success /\ resultado.via = "raw") =>
        \A i \in 1..Len(Arvore.categorias) :
            \A j \in 1..Len(Arvore.categorias[i].grupos) : \A lado \in Lados :
                LET g == Arvore.categorias[i].grupos[j]
                IN  \A f \in DOMAIN g[lado] : g[lado][f] = SomaNos(g.detalhes, lado, f)

C3_Witness ==
    /\ resultado.success
    /\ resultado.via = "raw"
    /\ \E i \in 1..Len(Arvore.categorias) : \E j \in 1..Len(Arvore.categorias[i].grupos) :
          LET g == Arvore.categorias[i].grupos[j]
          IN  /\ Len(g.detalhes) = 2
              /\ g.detalhes[1].valores_atual.dotacao_inicial > 0
              /\ g.detalhes[2].valores_anterior.dotacao_inicial > 0

\* Every AggregatedValues record of the tree: grand total, categories, groups
\* and (raw-row path) details, both sides.
ValoresDaArvore ==
    { Arvore.total_geral[lado] : lado \in Lados }
    \cup { Arvore.categorias[i][lado] : i \in 1..Len(Arvore.categorias), lado \in Lados }
    \cup UNION { { Arvore.categorias[i].grupos[j][lado] :
                     j \in 1..Len(Arvore.categorias[i].grupos), lado \in Lados } :
                 i \in 1..Len(Arvore.categorias) }
    \cup (IF resultado.via # "raw" THEN {}
          ELSE UNION { UNION { { Arvore.categorias[i].grupos[j].detalhes[k][lado] :
                                   k \in 1..Len(Arvore.categorias[i].grupos[j].detalhes),
                                   lado \in Lados } :
                               j \in 1..Len(Arvore.categorias[i].grupos) } :
                       i \in 1..Len(Arvore.categorias) })

\* A field of a values record, 0 when the record does not carry it.
Campo(v, f) == IF f \in DOMAIN v THEN v[f] ELSE 0

DerivadosRecalculados(v) ==
    /\ "dotacao_atualizada" \in DOMAIN v =>
          v.dotacao_atualizada = Campo(v, "dotacao_inicial") + Campo(v, "dotacao_adicional")
                                 + Campo(v, "cancelamento_dotacao")
                                 + Campo(v, "cancel_remaneja_dotacao")
    /\ "saldo_dotacao" \in DOMAIN v =>
          v.saldo_dotacao = Campo(v, "dotacao_atualizada") - Campo(v, "despesa_empenhada")

\* C4: in every values record of the output of either entry point,
\* dotacao_atualizada = dotacao_inicial + dotacao_adicional + cancelamento_dotacao
\* + cancel_remaneja_dotacao and saldo_dotacao = dotacao_atualizada -
\* despesa_empenhada, recomputed from the base fields the record sums.
C4_DerivadosEmTodaSaida ==
    resultado.success => \A v \in ValoresDaArvore : DerivadosRecalculados(v)

\* The same two identities in the output of the raw-row entry point alone,
\* where _somar_valores computes them.
DerivadosNoCaminhoBruto ==
    (resultado.success /\ resultado.via = "raw") =>
        /\ \A v \in ValoresDaArvore : DerivadosRecalculados(v)
        /\ DerivadosRecalculados(resultado.totais.atual)
        /\ DerivadosRecalculados(resultado.totais.anterior)

DerivadosNoCaminhoBruto_Alcancado ==
    /\ resultado.success
    /\ resultado.via = "raw"
    /\ \E v \in ValoresDaArvore :
          /\ v.cancelamento_dotacao + v.cancel_remaneja_dotacao < 0
          /\ v.dotacao_adicional > 0
          /\ v.despesa_empenhada > 0

\* What a cell of a numeric column denotes: the integer, the value of a string
\* of digits, 0 for anything else.
ValorDaCelula(c) ==
    IF c.t = "int" THEN c.n
    ELSE IF c.t = "str" /\ EhNumerica(c.s) THEN ValorDecimal(c.s)
    ELSE 0

\* C5: a record of the extract is in the current slice iff its year is Y and
\* its month is at most M, in the prior slice iff its year is Y-1 and its month
\* is at most M, and never in both.
C5_Particao ==
    (resultado.via = "raw" /\ Len(resultado.extrato) > 0) =>
        \A i \in 1..Len(resultado.extrato) :
            LET r == resultado.extrato[i]
                no_atual == r.idx \in Indices(resultado.mask_atual)
                no_anterior == r.idx \in Indices(resultado.mask_anterior)
            IN  /\ no_atual <=> (ValorDaCelula(r.COEXERCICIO) = req.exercicio
                                  /\ ValorDaCelula(r.INMES) <= req.mes)
                /\ no_anterior <=> (ValorDaCelula(r.COEXERCICIO) = req.exercicio - 1
                                     /\ ValorDaCelula(r.INMES) <= req.mes)
                /\ ~(no_atual /\ no_anterior)

C5_Witness ==
    /\ resultado.via = "raw"
    /\ Len(resultado.extrato) = 2
    /\ Len(resultado.mask_atual) = 1
    /\ Len(resultado.mask_anterior) = 0
    /\ \E i \in 1..2 : /\ resultado.extrato[i].COEXERCICIO = CelInt(req.exercicio)
                       /\ resultado.extrato[i].INMES = CelInt(req.mes + 1)
    /\ resultado.mask_atual[1].INMES = req.mes

\* The normalized unit identifier of a cell: the decimal digits of a number,
\* the string without surrounding blanks.
UnidadeNormalizada(c) == IF c.t = "int" THEN str_int(c.n) ELSE strip(c.s)

SemFiltroDeUnidade == req.ug.nulo \/ req.ug.s = CONSOLIDADO

\* C6: with no unit selector or the consolidated sentinel the slices are not
\* filtered by unit; with a unit X both slices hold exactly the records of the
\* year/month slices whose normalized unit equals normalized X.
C6_FiltroUnidade ==
    (resultado.via = "raw" /\ Len(resultado.extrato) > 0) =>
        IF SemFiltroDeUnidade
        THEN /\ Indices(resultado.df_atual) = Indices(resultado.mask_atual)
             /\ Indices(resultado.df_anterior) = Indices(resultado.mask_anterior)
        ELSE \A i \in 1..Len(resultado.extrato) :
                LET r == resultado.extrato[i]
                    casa == UnidadeNormalizada(r.COUG) = strip(req.ug.s)
                IN  /\ r.idx \in Indices(resultado.df_atual)
                        <=> (r.idx \in Indices(resultado.mask_atual) /\ casa)
                    /\ r.idx \in Indices(resultado.df_anterior)
                        <=> (r.idx \in Indices(resultado.mask_anterior) /\ casa)

C6_Witness ==
    /\ resultado.via = "raw"
    /\ ~SemFiltroDeUnidade
    /\ Len(resultado.extrato) = 2
    /\ Len(resultado.df_atual) = 1 /\ Len(resultado.df_anterior) = 1
    /\ \E i \in 1..2 : resultado.extrato[i].COUG = CelStr(<< " ", "1", " " >>)
    /\ \E i \in 1..2 : resultado.extrato[i].COUG = CelInt(1)

\* C7: a lookup of an entry kept under the default 12-hour TTL returns the
\* stored payload exactly when the entry exists, holds a complete payload and
\* was written at most 12 hours ago; an entry older than 12 hours yields absent
\* and is gone when the lookup returns.
C7_ObterDozeHoras ==
    (resultado.op = "obter" /\ resultado.tmo = 0) =>
        /\ ~resultado.ret.nulo <=>
              (resultado.existia /\ resultado.integro /\ resultado.idade <= timeout_padrao)
        /\ ~resultado.ret.nulo => resultado.ret.dados = resultado.guardado[1]
        /\ (resultado.existia /\ resultado.idade > timeout_padrao) =>
              (resultado.ret.nulo /\ ~resultado.existe /\ ~pkl[get_cache_path(resultado.chave)].existe)

C7_Witness ==
    /\ resultado.op = "obter" /\ resultado.tmo = 0
    /\ resultado.existia /\ resultado.integro
    /\ resultado.idade > timeout_padrao
    /\ resultado.ret.nulo /\ ~pkl[get_cache_path(resultado.chave)].existe

\* C8: a lookup of an entry saved with timeout_horas=24 returns the payload and
\* keeps the entry at every age up to 24 hours.
C8_OverrideNoLookup ==
    (/\ resultado.op = "obter" /\ resultado.tmo = 24
     /\ resultado.existia /\ resultado.integro
     /\ resultado.idade <= resultado.tmo) =>
        (~resultado.ret.nulo /\ resultado.existe)

\* Only salvar calls and lookups are made: nobody invalidates or clears.
SoSalvarELookup ==
    \A t \in Threads : threads[t].op \notin {"invalidar", "limpar_tudo"}

Completados == \A t \in Threads : threads[t].pc = "fim"

\* Once all calls have completed and some salvar returned True, the entry
\* exists and holds exactly the payload of the last salvar to complete.
UltimoSalvarFica ==
    (Completados /\ ultimo # "") => (Arq.existe /\ Arq.conteudo = Completo(ultimo))

\* No lookup returns a payload mixed from two writes.
SemLeituraMista == \A t \in Threads : threads[t].ret # "misto"

\* No lookup removes the entry a writer is producing.
SemRemocaoSobEscrita == \A t \in Threads : threads[t].fd # "orfao"

\* C9: under any interleaving of concurrent salvar calls and lookups of one
\* key the entry is fully replaced: after all calls it holds the payload of the
\* last salvar to complete, no lookup returns a mixed payload and no lookup
\* removes the entry under a writer.
C9_SubstituicaoCompleta ==
    SoSalvarELookup => (UltimoSalvarFica /\ SemLeituraMista /\ SemRemocaoSobEscrita)

\* C10: no concurrent CacheService.obter raises.
C10_ObterNaoLevanta ==
    \A t \in Threads : threads[t].op = "obter" => threads[t].exc = ""

\* C11: a lookup that finds an unreadable payload reports a miss and deletes
\* the entry, so that the entry is gone when the lookup returns.
C11_CorrompidoRemovido ==
    (resultado.op = "obter" /\ resultado.existia /\ ~resultado.integro) =>
        (resultado.ret.nulo /\ ~resultado.existe /\ ~pkl[get_cache_path(resultado.chave)].existe)

\* What each entry point returns from the source alone, with no cache.
SemCacheLegado(banco_ok) ==
    dados_comparativo(IF banco_ok THEN DataFrame(banco) ELSE << >>,
                      req.exercicio, req.mes, req.ug)

SemCacheBackend(banco_ok) ==
    IF banco_ok THEN resposta_view(visao.comparativo,
                                 obter_resumo_grupo(visao.grupos, req.exercicio),
                                 visao.creditos, req.exercicio)
    ELSE estrutura_erro

\* The cache holds no readable entry for the call: none at all, or an
\* unreadable one.
SemExtratoLegivel == ~(dados_pkl.existe /\ pickle_ok(dados_pkl.conteudo))

SemEntradaLegivel ==
    ~(pkl[get_cache_path(ChaveDemonstrativo)].existe /\ pickle_ok(pkl[get_cache_path(ChaveDemonstrativo)].conteudo))

\* Every response is one the source alone determines.
RespostaSoDaFonte ==
    /\ resultado.via = "raw" => \E banco_ok \in BOOLEAN : resultado = SemCacheLegado(banco_ok)
    /\ resultado.via = "view" => \E banco_ok \in BOOLEAN : resultado = SemCacheBackend(banco_ok)

\* A call whose cache read finds nothing readable, however its cache write
\* goes, returns what the working source gives with no cache.
FalhaDeCacheSemEfeito ==
    \A res \in ResultadosSalvar :
        /\ (SemExtratoLegivel /\ ProcessarDadosComparativoCom(TRUE, res))
              => resultado' = SemCacheLegado(TRUE)
        /\ (SemEntradaLegivel /\ ObterDemonstrativoComparativoCom(TRUE, res))
              => resultado' = SemCacheBackend(TRUE)

LinhasExtrato ==
    { Linha(CelInt(2025), CelInt(1), CelInt(1), "3", "1", 1, VA),
      Linha(CelInt(2024), CelInt(1), CelInt(1), "4", "4", 1, VB) }

Extratos == SeqAte(LinhasExtrato, MaxRows)

BuscaInicial ==
    [op |-> "nenhuma", df |-> << >>, consultou |-> FALSE, guardou |-> FALSE,
     antes |-> Nenhum]

InitExtrato ==
    /\ app = "legado"
    /\ banco \in Extratos
    /\ visao = [comparativo |-> << >>, grupos |-> << >>, ugs |-> << >>, creditos |-> << >>]
    /\ req = Requisicao(2025, 1, UgNone)
    /\ dados_pkl = ArquivoAusente
    /\ pkl = [k \in Caminhos |-> ArquivoAusente]
    /\ timeout_file = [k \in Caminhos |-> 0]
    /\ agora = 0
    /\ resultado = BuscaInicial
    /\ threads = << >>
    /\ ultimo = Nenhum

\* _buscar_dados_completos
BuscarDadosCompletos ==
    \E banco_ok \in BOOLEAN, res \in ResultadosSalvar :
        LET c == simple_carregar(dados_pkl)
            b == buscar_dados_completos(dados_pkl, banco, banco_ok, agora, res)
            guardou == /\ c.ret.nulo /\ banco_ok /\ Len(banco) > 0
                       /\ simple_salvar(c.arq, DataFrame(banco), agora, res).ret
        IN  /\ dados_pkl' = b.arq
            /\ resultado' = [op |-> "buscar", df |-> b.df, consultou |-> c.ret.nulo,
                             guardou |-> guardou, antes |-> ultimo]
            /\ ultimo' = IF guardou THEN Algum(b.df) ELSE ultimo
            /\ UNCHANGED << threads, app, banco, visao, req, pkl, timeout_file, agora >>

\* DespesaOrcamentariaService.limpar_cache -> SimpleCache.limpar
LimparCache ==
    /\ dados_pkl' = ArquivoAusente
    /\ resultado' = [BuscaInicial EXCEPT !.op = "limpar"]
    /\ ultimo' = Nenhum
    /\ UNCHANGED << threads, app, banco, visao, req, pkl, timeout_file, agora >>

\* DespesaOrcamentariaService.recriar_cache: limpar_cache, then
\* _buscar_dados_completos, then True when the extract returned is not empty.
RecriarCache ==
    \E banco_ok \in BOOLEAN, res \in ResultadosSalvar :
        LET b == buscar_dados_completos(ArquivoAusente, banco, banco_ok, agora, res)
            guardou == /\ banco_ok /\ Len(banco) > 0
                       /\ simple_salvar(ArquivoAusente, DataFrame(banco), agora, res).ret
        IN  /\ dados_pkl' = b.arq
            /\ resultado' = [op |-> "recriar", df |-> b.df, consultou |-> TRUE,
                             guardou |-> guardou, antes |-> Nenhum, ret |-> Len(b.df) > 0]
            /\ ultimo' = IF guardou THEN Algum(b.df) ELSE Nenhum
            /\ UNCHANGED << threads, app, banco, visao, req, pkl, timeout_file, agora >>

\* The ledger moves on.
MudaBanco ==
    /\ \E b \in Extratos \ {banco} : banco' = b
    /\ UNCHANGED << threads, ultimo, app, visao, req, dados_pkl, pkl, timeout_file, agora,
                    resultado >>

\* Midnight passes while the process, and with it the SimpleCache singleton
\* whose cache_file was named at construction, keeps running.
ViraODia ==
    /\ agora + 24 <= MaxHora
    /\ agora' = agora + 24
    /\ resultado' = [BuscaInicial EXCEPT !.op = "dia"]
    /\ UNCHANGED << threads, ultimo, app, banco, visao, req, dados_pkl, pkl, timeout_file >>

NextExtrato ==
    BuscarDadosCompletos \/ LimparCache \/ RecriarCache \/ MudaBanco \/ ViraODia

SpecExtrato == InitExtrato /\ [][NextExtrato]_vars

\* C13: after a call that fetched a non-empty extract and stored it, every
\* later call with no cache clear in between returns that same extract and
\* does not query the ledger.
C13_BuscaUmaVez ==
    (resultado.op = "buscar" /\ ~resultado.antes.nulo) =>
        (~resultado.consultou /\ resultado.df = resultado.antes.dados)

\* A later call returned the stored extract after the ledger had changed.
C13_Witness ==
    /\ resultado.op = "buscar" /\ ~resultado.antes.nulo
    /\ ~resultado.consultou
    /\ resultado.df # DataFrame(banco)


\* C14: a failure of the source query never leaves a service operation as an
\* exception: obter_ugs_disponiveis, like the other operations, ends with a
\* returned (empty) result when the query fails.
C14_FalhaDaFonteNaoPropaga ==
    resultado.op # "obter_ugs_disponiveis_erro"


\* CacheService.estatisticas: the number of .pkl files in the directory.
estatisticas(arquivos) ==
    [total_arquivos |-> Cardinality({ p \in DOMAIN arquivos : arquivos[p].existe })]

\* After limpar_tudo no key is retrievable and estatisticas counts no file.
LimparTudoCompleto ==
    (resultado'.op = "limpar_tudo" /\ agora' = agora) =>
        /\ \A k \in Chaves : cache_obter(pkl'[get_cache_path(k)], agora').ret.nulo
        /\ estatisticas(pkl').total_arquivos = 0

\* An empty cache stays empty until an operation that saves.
VazioAteSalvar ==
    (estatisticas(pkl).total_arquivos = 0
        /\ resultado'.op \notin {"salvar", "obter_ugs_disponiveis"}) =>
            /\ \A k \in Chaves : cache_obter(pkl'[get_cache_path(k)], agora').ret.nulo
            /\ estatisticas(pkl').total_arquivos = 0

\* After invalidar(k) the key k is absent ...
InvalidarRemove ==
    \A k \in Chaves :
        (resultado'.op = "invalidar" /\ resultado'.chave = k /\ agora' = agora) => cache_obter(pkl'[get_cache_path(k)], agora').ret.nulo

\* ... and what obter gives for any other key is what it gave before.
InvalidarPreciso ==
    \A k \in Chaves :
        (resultado'.op = "invalidar" /\ resultado'.chave = k /\ agora' = agora) =>
            \A j \in Chaves \ {k} :
                LET depois == cache_obter(pkl'[get_cache_path(j)], agora').ret
                    antes == cache_obter(pkl[get_cache_path(j)], agora).ret
                IN  /\ depois.nulo = antes.nulo
                    /\ ~depois.nulo => depois.dados = antes.dados

\* The same, for the other keys that are kept in a file of their own.
InvalidarPrecisoSemColisao ==
    \A k \in Chaves :
        (resultado'.op = "invalidar" /\ resultado'.chave = k /\ agora' = agora) =>
            \A j \in Chaves \ {k} :
                get_cache_path(j) # get_cache_path(k) =>
                    /\ pkl'[get_cache_path(j)] = pkl[get_cache_path(j)]
                    /\ timeout_file'[get_cache_path(j)] = timeout_file[get_cache_path(j)]

\* C15: explicit removal is complete and precise: after limpar_tudo no key is
\* retrievable and estatisticas reports zero entries until a new salvar; after
\* invalidar(k) the key k is absent and the entries of all other keys are
\* unchanged.
C15_RemocaoCompletaEPrecisa ==
    [][LimparTudoCompleto /\ VazioAteSalvar /\ InvalidarRemove /\ InvalidarPreciso]_vars

\* The parts of C15 that hold: everything but the other keys that share the
\* file of the invalidated key.
RemocaoCompletaEPrecisaPorArquivo ==
    [][LimparTudoCompleto /\ VazioAteSalvar /\ InvalidarRemove
          /\ InvalidarPrecisoSemColisao]_vars


\* C16: a category of the registry is in the tree exactly when at least one
\* record of the current or of the prior slice carries its code, whether or
\* not the monetary fields of those records sum to zero.
C16_CategoriaPresenteSeTemRegistro ==
    (resultado.via = "raw" /\ resultado.success) =>
        \A c \in 1..Len(ESTRUTURA_CATEGORIAS) :
            (\E i \in 1..Len(Arvore.categorias) :
                 Arvore.categorias[i].id = ESTRUTURA_CATEGORIAS[c].id)
            <=> (\E i \in 1..Len(resultado.df_atual) :
                     resultado.df_atual[i].CATEGORIA = ESTRUTURA_CATEGORIAS[c].id)
                \/ (\E i \in 1..Len(resultado.df_anterior) :
                        resultado.df_anterior[i].CATEGORIA = ESTRUTURA_CATEGORIAS[c].id)

\* A category is in the tree with every field zero on both sides, next to a
\* registry category that is absent.
C16_Witness ==
    /\ resultado.via = "raw" /\ resultado.success
    /\ \E i \in 1..Len(Arvore.categorias) :
           \A lado \in Lados : \A f \in DOMAIN Arvore.categorias[i][lado] :
               Arvore.categorias[i][lado][f] = 0
    /\ Len(Arvore.categorias) < Len(ESTRUTURA_CATEGORIAS)


\* The same rows in every order.
Permutacoes(seq) ==
    { [i \in 1..Len(seq) |-> seq[p[i]]] : p \in Permutations(1..Len(seq)) }

\* C17: the tree is a function of the set of records and of the selector: the
\* same records in any other row order give the same nodes in the same order
\* with the same values, and the same card totals.
C17_OrdemDasLinhasNaoImporta ==
    (resultado.via = "raw" /\ resultado.success) =>
        \A p \in Permutacoes(banco) :
            LET r == dados_comparativo(DataFrame(p), req.exercicio, req.mes, req.ug)
            IN  /\ r.success
                /\ r.demonstrativo = resultado.demonstrativo
                /\ r.totais = resultado.totais

\* Two different rows of one group, the higher nature code first.
C17_Witness ==
    /\ resultado.via = "raw" /\ resultado.success
    /\ Len(banco) = 2
    /\ banco[1].CATEGORIA = banco[2].CATEGORIA /\ banco[1].GRUPO = banco[2].GRUPO
    /\ banco[1].CONATUREZA > banco[2].CONATUREZA
    /\ \E i \in 1..Len(Arvore.categorias) :
           \E j \in 1..Len(Arvore.categorias[i].grupos) :
               Len(Arvore.categorias[i].grupos[j].detalhes) = 2


\* Sum of one column over rows of a view.
RECURSIVE SomaLinhas(_, _)
SomaLinhas(linhas, col) ==
    IF Len(linhas) = 0 THEN 0 ELSE linhas[1][col] + SomaLinhas(Tail(linhas), col)

\* Raw-row path: the prior-year values of a group are the sums of the
\* prior-year rows of that category and group.
AnteriorDosGruposBruto ==
    (resultado.via = "raw" /\ resultado.success) =>
        \A i \in 1..Len(Arvore.categorias) :
            \A j \in 1..Len(Arvore.categorias[i].grupos) :
                Arvore.categorias[i].grupos[j].valores_anterior
                    = somar_valores(Filtrar(Filtrar(resultado.df_anterior, "CATEGORIA",
                                                    Arvore.categorias[i].id),
                                            "GRUPO", Arvore.categorias[i].grupos[j].id))

\* View path: where VW_DESPESA_RESUMO_GRUPO holds rows of the year before for
\* a group of the tree, the prior-year values of the group are their sums.
AnteriorDosGruposView ==
    (resultado.via = "view" /\ resultado.success) =>
        \A i \in 1..Len(Arvore.categorias) :
            \A j \in 1..Len(Arvore.categorias[i].grupos) :
                LET anteriores ==
                        SelectSeq(visao.grupos,
                                  LAMBDA g : /\ g.EXERCICIO = req.exercicio - 1
                                             /\ g.CATEGORIA = Arvore.categorias[i].id
                                             /\ g.GRUPO = Arvore.categorias[i].grupos[j].id)
                    no == Arvore.categorias[i].grupos[j]
                IN  Len(anteriores) > 0 =>
                        /\ no.valores_anterior.despesa_empenhada
                              = SomaLinhas(anteriores, "DESPESA_EMPENHADA")
                        /\ no.valores_anterior.despesa_liquidada
                              = SomaLinhas(anteriores, "DESPESA_LIQUIDADA")
                        /\ no.valores_anterior.despesa_paga
                              = SomaLinhas(anteriores, "DESPESA_PAGA")

\* C18: on both entry points the prior-year values of every group node are
\* the sums of the prior-year data the source holds for that group, never a
\* zero fill.
C18_AnteriorDosGrupos ==
    AnteriorDosGruposBruto /\ AnteriorDosGruposView


\* The value fields, current or prior, of every node the raw-row path builds.
CamposDeValores == DOMAIN criar_valores_zerados

\* A values pair with the raw-row field set on both sides.
FormaDeValores(no) ==
    /\ DOMAIN no.valores_atual = CamposDeValores
    /\ DOMAIN no.valores_anterior = CamposDeValores

\* A tree of the raw-row shape: categories holding groups, groups holding
\* details, the same value fields on every node and on the grand total.
FormaDaArvoreBruta(arvore) ==
    /\ FormaDeValores(arvore.total_geral)
    /\ DOMAIN arvore.total_geral = Lados
    /\ \A i \in 1..Len(arvore.categorias) :
           LET categoria == arvore.categorias[i]
           IN  /\ FormaDeValores(categoria)
               /\ DOMAIN categoria = {"id", "nome", "grupos"} \cup Lados
               /\ \A j \in 1..Len(categoria.grupos) :
                      LET grupo == categoria.grupos[j]
                      IN  /\ FormaDeValores(grupo)
                          /\ DOMAIN grupo = {"id", "nome", "detalhes"} \cup Lados
                          /\ \A k \in 1..Len(grupo.detalhes) :
                                 /\ FormaDeValores(grupo.detalhes[k])
                                 /\ DOMAIN grupo.detalhes[k] = {"natureza"} \cup Lados

\* Every tree of the raw-row path has that shape.
FormaNoCaminhoBruto ==
    (resultado.via = "raw" /\ resultado.success) => FormaDaArvoreBruta(Arvore)

\* A raw-row tree with all three levels.
FormaNoCaminhoBruto_Alcancado ==
    /\ resultado.via = "raw" /\ resultado.success
    /\ \E i \in 1..Len(Arvore.categorias) :
           \E j \in 1..Len(Arvore.categorias[i].grupos) :
               Len(Arvore.categorias[i].grupos[j].detalhes) > 0

\* C19: the trees of the two entry points have the same shape: the same node
\* levels (category, group, detail), the same value fields on the current and
\* prior sides, and the same grand-total structure.
C19_MesmaForma ==
    resultado.success => FormaDaArvoreBruta(Arvore)


\* The seven credit-movement fields of a credit values record.
MovimentosDeCredito ==
    << "credito_suplementar", "credito_especial_aberto", "credito_especial_reaberto",
       "credito_extraordinario_reaberto", "cancel_credito_suplementar",
       "remanejamento_veto_lei", "cancel_credito_especial" >>

RECURSIVE SomaCampos(_, _)
SomaCampos(valores, campos) ==
    IF Len(campos) = 0 THEN 0 ELSE valores[campos[1]] + SomaCampos(valores, Tail(campos))

TotalAlteracoesConfere(valores) ==
    valores.total_alteracoes = SomaCampos(valores, MovimentosDeCredito)

\* total_alteracoes is the sum of the seven movements on every record of a
\* credit summary that has a grand total.
CreditosConferem(creditos) ==
    /\ TotalAlteracoesConfere(creditos.total_geral)
    /\ \A i \in 1..Len(creditos.categorias) :
           /\ TotalAlteracoesConfere(creditos.categorias[i].valores)
           /\ \A j \in 1..Len(creditos.categorias[i].grupos) :
                  TotalAlteracoesConfere(creditos.categorias[i].grupos[j].valores)

\* Raw-row path: the credit summary of every successful response.
CreditosNoCaminhoBruto ==
    (resultado.via = "raw" /\ resultado.success) => CreditosConferem(resultado.creditos)

\* A raw-row credit summary with a group whose movements are not all zero.
CreditosNoCaminhoBruto_Alcancado ==
    /\ resultado.via = "raw" /\ resultado.success
    /\ \E i \in 1..Len(resultado.creditos.categorias) :
           \E j \in 1..Len(resultado.creditos.categorias[i].grupos) :
               resultado.creditos.categorias[i].grupos[j].valores.total_alteracoes # 0

\* C20: in the credit summary of either entry point, total_alteracoes of every
\* category, every group and the grand total is the sum of the seven
\* credit-movement fields of the same record.
C20_TotalAlteracoes ==
    /\ CreditosNoCaminhoBruto
    /\ (resultado.via = "view" /\ resultado.success /\ Len(resultado.creditos.categorias) > 0)
           => CreditosConferem(resultado.creditos)


\* Rows a group takes in the export: its own and one per detail.
LinhasDoGrupo(grupo) == 1 + Len(grupo.detalhes)

RECURSIVE LinhasDosGrupos(_, _)
LinhasDosGrupos(grupos, n) ==
    IF n = 0 THEN 0 ELSE LinhasDoGrupo(grupos[n]) + LinhasDosGrupos(grupos, n - 1)

RECURSIVE LinhasDasCategorias(_, _)
LinhasDasCategorias(categorias, n) ==
    IF n = 0 THEN 0
    ELSE 1 + LinhasDosGrupos(categorias[n].grupos, Len(categorias[n].grupos))
         + LinhasDasCategorias(categorias, n - 1)

\* The row at position p is the row of node no, of the given type.
LinhaDoNo(linhas, p, tipo, texto, no) ==
    /\ p \in 1..Len(linhas)
    /\ linhas[p].TIPO = tipo
    /\ linhas[p].DESCRICAO[Len(linhas[p].DESCRICAO)] = texto
    /\ linhas[p].EMPENHADA_ATUAL = no.valores_atual.despesa_empenhada
    /\ linhas[p].EMPENHADA_ANTERIOR = no.valores_anterior.despesa_empenhada
    /\ linhas[p].DOTACAO_INICIAL = no.valores_atual.dotacao_inicial

\* C21: the export rows follow the tree depth first: each category row, then
\* each of its groups followed by that group's details, one row per node, and
\* exactly one TOTAL row, which is the last row.
C21_ExportacaoEmProfundidade ==
    (resultado.via = "raw" /\ resultado.success) =>
        LET linhas == exportar_dados_processados(resultado)
            cats == Arvore.categorias
        IN  /\ Len(linhas) = LinhasDasCategorias(cats, Len(cats)) + 1
            /\ linhas[Len(linhas)].TIPO = "TOTAL"
            /\ \A p \in 1..(Len(linhas) - 1) : linhas[p].TIPO # "TOTAL"
            /\ \A i \in 1..Len(cats) :
                   LET pc == 1 + LinhasDasCategorias(cats, i - 1)
                   IN  /\ LinhaDoNo(linhas, pc, "CATEGORIA", cats[i].nome, cats[i])
                       /\ \A j \in 1..Len(cats[i].grupos) :
                              LET pg == pc + 1 + LinhasDosGrupos(cats[i].grupos, j - 1)
                                  grupo == cats[i].grupos[j]
                              IN  /\ LinhaDoNo(linhas, pg, "GRUPO", grupo.nome, grupo)
                                  /\ \A k \in 1..Len(grupo.detalhes) :
                                         LinhaDoNo(linhas, pg + k, "DETALHE",
                                                   grupo.detalhes[k].natureza,
                                                   grupo.detalhes[k])

\* An export of a group with two details.
C21_Witness ==
    /\ resultado.via = "raw" /\ resultado.success
    /\ Len(exportar_dados_processados(resultado)) = 5
    /\ \E i \in 1..Len(Arvore.categorias) :
           \E j \in 1..Len(Arvore.categorias[i].grupos) :
               Len(Arvore.categorias[i].grupos[j].detalhes) = 2


\* ---------------------------------------------------------------------------
\* Request paths: the parameters each route hands to the aggregation engine.
\* A parameter is absent, JSON null, a JSON integer, a string holding the
\* decimal text of an integer, or a string that is not a number.
\* ---------------------------------------------------------------------------
ParAusente == [t |-> "ausente", n |-> 0]
ParNulo == [t |-> "null", n |-> 0]
ParInt(n) == [t |-> "int", n |-> n]
ParStr(n) == [t |-> "str", n |-> n]
ParStrRuim == [t |-> "str_ruim", n |-> 0]

Exercicios == {1999, 2019, 2025, 2031, 2051}
Meses == {0, 1, 12, 13}

\* request.get_json(): any JSON value; request.args: strings only.
ParametrosJson(valores) ==
    {ParAusente, ParNulo, ParStrRuim} \cup { ParInt(n) : n \in valores } \cup { ParStr(n) : n \in valores }
ParametrosQuery(valores) ==
    {ParAusente, ParStrRuim} \cup { ParStr(n) : n \in valores }

\* int(x): [ok, v]; a non-numeric string raises ValueError, None raises TypeError.
int_py(p) ==
    IF p.t \in {"int", "str"} THEN [ok |-> TRUE, v |-> ParInt(p.n)]
    ELSE [ok |-> FALSE, v |-> p]

\* dict.get(key, padrao): the default replaces only a missing key.
get_padrao(p, padrao) == IF p.t = "ausente" THEN ParInt(padrao) ELSE p

Resposta(rota, status, motor, exercicio, mes) ==
    [rota |-> rota, status |-> status, motor |-> motor, exercicio |-> exercicio, mes |-> mes]

InitRotas ==
    /\ app = "legado"
    /\ banco = << >>
    /\ visao = [comparativo |-> << >>, grupos |-> << >>, ugs |-> << >>, creditos |-> << >>]
    /\ req = [rota |-> "", exercicio |-> ParAusente, mes |-> ParAusente]
    /\ dados_pkl = ArquivoAusente
    /\ pkl = [k \in Caminhos |-> ArquivoAusente]
    /\ timeout_file = [k \in Caminhos |-> 0]
    /\ agora = 0
    /\ resultado = Resposta("", "", FALSE, ParAusente, ParAusente)
    /\ threads = << >>
    /\ ultimo = Nenhum

\* POST /api/dados-completos
api_dados_completos ==
    \E e \in ParametrosJson(Exercicios), m \in ParametrosJson(Meses) :
        LET rota == "/api/dados-completos"
            \* data.get(...): a missing key and a null both read as None
            e0 == IF e.t = "ausente" THEN ParNulo ELSE e
            m0 == IF m.t = "ausente" THEN ParNulo ELSE m
            \* int(...) of a string that is not a number raises; the handler answers 500
            falha == e0.t = "str_ruim" \/ m0.t = "str_ruim"
            e1 == IF e0.t = "str" THEN ParInt(e0.n) ELSE e0
            m1 == IF m0.t = "str" THEN ParInt(m0.n) ELSE m0
            exercicio == IF e1.t = "null" THEN ParInt(2025) ELSE e1
            mes == IF m1.t = "null" THEN ParInt(12) ELSE m1
        IN  /\ app' = "legado"
            /\ req' = [rota |-> rota, exercicio |-> e, mes |-> m]
            /\ resultado' =
                 IF falha
                 THEN Resposta(rota, "500", FALSE, e, m)
                 ELSE IF exercicio.t # "int" \/ exercicio.n < 2000 \/ exercicio.n > 2050
                 THEN Resposta(rota, "400", FALSE, exercicio, mes)
                 ELSE IF mes.t # "int" \/ mes.n < 1 \/ mes.n > 12
                 THEN Resposta(rota, "400", FALSE, exercicio, mes)
                 ELSE Resposta(rota, "motor", TRUE, exercicio, mes)
            /\ UNCHANGED << banco, visao, dados_pkl, pkl, timeout_file, agora, threads, ultimo >>

\* POST /api/exportar
api_exportar ==
    \E e \in ParametrosJson(Exercicios), m \in ParametrosJson(Meses) :
        LET rota == "/api/exportar"
            exercicio == get_padrao(e, 2025)
            mes == get_padrao(m, 12)
        IN  /\ app' = "legado"
            /\ req' = [rota |-> rota, exercicio |-> e, mes |-> m]
            /\ resultado' = Resposta(rota, "motor", TRUE, exercicio, mes)
            /\ UNCHANGED << banco, visao, dados_pkl, pkl, timeout_file, agora, threads, ultimo >>

\* GET /api/dados
api_dados_legado ==
    \E e \in ParametrosQuery(Exercicios), m \in ParametrosQuery(Meses) :
        LET rota == "/api/dados"
            exercicio == int_py(get_padrao(e, 2025))
            mes == int_py(get_padrao(m, 12))
        IN  /\ app' = "legado"
            /\ req' = [rota |-> rota, exercicio |-> e, mes |-> m]
            /\ resultado' =
                 IF exercicio.ok /\ mes.ok
                 THEN Resposta(rota, "motor", TRUE, exercicio.v, mes.v)
                 ELSE Resposta(rota, "500", FALSE, e, m)
            /\ UNCHANGED << banco, visao, dados_pkl, pkl, timeout_file, agora, threads, ultimo >>

\* validar_parametros for one required integer parameter: [erro, valor]
validar_parametros(p, min, max) ==
    IF p.t = "ausente" THEN [erro |-> TRUE, valor |-> p]
    ELSE LET c == int_py(p)
         IN  IF ~c.ok THEN [erro |-> TRUE, valor |-> p]
             ELSE [erro |-> c.v.n < min \/ c.v.n > max, valor |-> c.v]

\* GET /api/v1/despesas
listar_despesas ==
    \E e \in ParametrosQuery(Exercicios), m \in ParametrosQuery(Meses) :
        LET rota == "/api/v1/despesas"
            exercicio == validar_parametros(e, 2020, 2030)
            mes == validar_parametros(m, 1, 12)
        IN  /\ app' = "backend"
            /\ req' = [rota |-> rota, exercicio |-> e, mes |-> m]
            /\ resultado' =
                 IF exercicio.erro \/ mes.erro
                 THEN Resposta(rota, "400", FALSE, exercicio.valor, mes.valor)
                 ELSE Resposta(rota, "motor", TRUE, exercicio.valor, mes.valor)
            /\ UNCHANGED << banco, visao, dados_pkl, pkl, timeout_file, agora, threads, ultimo >>

NextRotas == api_dados_completos \/ api_exportar \/ api_dados_legado \/ listar_despesas

SpecRotas == InitRotas /\ [][NextRotas]_vars

\* The bounds a route is configured with: 2000..2050 in the legacy
\* application, 2020..2030 in the versioned API.
ExercicioNosLimites(rota, n) ==
    IF rota = "/api/v1/despesas" THEN n >= 2020 /\ n <= 2030 ELSE n >= 2000 /\ n <= 2050

ParametrosValidos(r) ==
    /\ r.mes.t = "int" /\ r.mes.n >= 1 /\ r.mes.n <= 12
    /\ r.exercicio.t = "int" /\ ExercicioNosLimites(r.rota, r.exercicio.n)

\* C22 (as the specification states it): on every request path the engine is
\* invoked only with an integer month in 1..12 and a fiscal year inside the
\* configured bounds.
C22_MotorSoComParametrosValidos == resultado.motor => ParametrosValidos(resultado)

\* C22, the routes that do validate: POST /api/dados-completos and
\* GET /api/v1/despesas call the engine only with valid parameters.
C22_RotasQueValidam ==
    (resultado.motor /\ resultado.rota \in {"/api/dados-completos", "/api/v1/despesas"})
        => ParametrosValidos(resultado)

C22_RotasQueValidam_Witness ==
    /\ resultado.rota = "/api/dados-completos"
    /\ req.mes = ParStr(13)
    /\ resultado.status = "400"
    /\ ~resultado.motor


\* ---------------------------------------------------------------------------
\* Cache store construction over the directory "cache", which the three stores
\* share by default. Time is counted in days; in this specification `agora' is
\* today, `pkl' is the set of files of the directory and `ultimo' holds the
\* date each live instance put in its file names (-1: no instance).
\* ---------------------------------------------------------------------------
MaxDia == 8
MaxArquivos == 2
dias_manter == 7

\* A file: name prefix, the date in its name (-1: none), extension, mtime.
Arquivo(prefixo, data, ext, mtime) ==
    [prefixo |-> prefixo, data |-> data, ext |-> ext, mtime |-> mtime]

\* open(path, 'wb'): creates the file or replaces the one of the same name.
gravar(dir, f) ==
    { g \in dir : ~(g.prefixo = f.prefixo /\ g.data = f.data /\ g.ext = f.ext) } \cup {f}

\* SimpleCache.limpar_antigos: glob("dados_*.pkl"), date taken from the name,
\* removed when data_arquivo < now - 7 days (meia_noite: now is exactly 00:00).
limpar_antigos(dir, hoje, meia_noite) ==
    { f \in dir :
        ~( /\ f.prefixo = "dados_" /\ f.ext = "pkl" /\ f.data # -1
           /\ IF meia_noite THEN f.data < hoje - 7 ELSE f.data <= hoje - 7 ) }

\* CacheManager._limpar_caches_antigos: glob("*.pkl"), date taken from the last
\* "_" piece of the stem, removed when (hoje - data).days > dias_manter, together
\* with the file of the same stem and suffix .json.
limpar_caches_antigos(dir, hoje) ==
    LET removidos == { f \in dir : f.ext = "pkl" /\ f.data # -1 /\ hoje - f.data > dias_manter }
    IN  { f \in dir :
            /\ f \notin removidos
            /\ ~(f.ext = "json" /\ \E r \in removidos : r.prefixo = f.prefixo /\ r.data = f.data) }

Instancias(simple, manager, service) == [simple |-> simple, manager |-> manager, service |-> service]

InitLimpeza ==
    /\ app = "legado"
    /\ banco = << >>
    /\ visao = [comparativo |-> << >>, grupos |-> << >>, ugs |-> << >>, creditos |-> << >>]
    /\ req = Requisicao(2025, 1, UgNone)
    /\ dados_pkl = ArquivoAusente
    /\ pkl = {}
    /\ timeout_file = [k \in Caminhos |-> 0]
    /\ agora = 0
    /\ resultado = [op |-> ""]
    /\ threads = << >>
    /\ ultimo = Instancias(-1, -1, -1)

\* SimpleCache.__init__
SimpleCacheInit ==
    \E meia_noite \in BOOLEAN :
        /\ pkl' = limpar_antigos(pkl, agora, meia_noite)
        /\ ultimo' = [ultimo EXCEPT !.simple = agora]
        /\ resultado' = [op |-> "SimpleCache"]
        /\ UNCHANGED << app, banco, visao, req, dados_pkl, timeout_file, agora, threads >>

\* SimpleCache.salvar
SimpleCacheSalvar ==
    /\ ultimo.simple # -1
    /\ Cardinality(pkl) < MaxArquivos
    /\ pkl' = gravar(pkl, Arquivo("dados_", ultimo.simple, "pkl", agora))
    /\ resultado' = [op |-> "salvar"]
    /\ UNCHANGED << app, banco, visao, req, dados_pkl, timeout_file, agora, threads, ultimo >>

\* CacheManager.__init__
CacheManagerInit ==
    /\ pkl' = limpar_caches_antigos(pkl, agora)
    /\ ultimo' = [ultimo EXCEPT !.manager = agora]
    /\ resultado' = [op |-> "CacheManager"]
    /\ UNCHANGED << app, banco, visao, req, dados_pkl, timeout_file, agora, threads >>

\* CacheManager.salvar_cache
CacheManagerSalvar ==
    /\ ultimo.manager # -1
    /\ Cardinality(pkl) + 1 < MaxArquivos
    /\ pkl' = gravar(gravar(pkl, Arquivo("despesa_orcamentaria_", ultimo.manager, "pkl", agora)),
                     Arquivo("cache_metadata_", ultimo.manager, "json", agora))
    /\ resultado' = [op |-> "salvar_cache"]
    /\ UNCHANGED << app, banco, visao, req, dados_pkl, timeout_file, agora, threads, ultimo >>

\* CacheService.__init__
CacheServiceInit ==
    /\ ultimo' = [ultimo EXCEPT !.service = agora]
    /\ resultado' = [op |-> "CacheService"]
    /\ UNCHANGED << app, banco, visao, req, dados_pkl, pkl, timeout_file, agora, threads >>

\* CacheService.salvar
CacheServiceSalvar ==
    /\ ultimo.service # -1
    /\ Cardinality(pkl) < MaxArquivos
    /\ pkl' = gravar(pkl, Arquivo("demonstrativo", -1, "pkl", agora))
    /\ resultado' = [op |-> "salvar"]
    /\ UNCHANGED << app, banco, visao, req, dados_pkl, timeout_file, agora, threads, ultimo >>

PassarDia ==
    /\ agora < MaxDia
    /\ agora' = agora + 1
    /\ resultado' = [op |-> "dia"]
    /\ UNCHANGED << app, banco, visao, req, dados_pkl, pkl, timeout_file, threads, ultimo >>

NextLimpeza ==
    \/ SimpleCacheInit \/ SimpleCacheSalvar
    \/ CacheManagerInit \/ CacheManagerSalvar
    \/ CacheServiceInit \/ CacheServiceSalvar
    \/ PassarDia

SpecLimpeza == InitLimpeza /\ [][NextLimpeza]_vars

\* C23 (as the specification states it): when the constructor of a cache store
\* has returned, no file of the cache directory is older than the 7-day
\* retention window, whatever its name.
C23_VarreduraNaInicializacao ==
    resultado.op \in {"SimpleCache", "CacheManager", "CacheService"}
        => \A f \in pkl : agora - f.mtime <= dias_manter

\* C23, what the sweeps do: after SimpleCache() no dados_<date>.pkl is left whose
\* name is dated more than 7 days ago, and after CacheManager() no <x>_<date>.pkl.
C23_VarreduraPorNome ==
    /\ resultado.op = "SimpleCache"
         => \A f \in pkl : (f.prefixo = "dados_" /\ f.ext = "pkl") => agora - f.data <= dias_manter
    /\ resultado.op = "CacheManager"
         => \A f \in pkl : (f.ext = "pkl" /\ f.data # -1) => agora - f.data <= dias_manter


\* The rows of one side of the call's slices that fall under a group node.
FatiaDoGrupo(df, cat, grupo) == Filtrar(Filtrar(df, "CATEGORIA", cat), "GRUPO", grupo)

\* C24: in every tree of the raw-row path, the detail list of each group has
\* exactly one node per distinct nature code of the union of the group's current
\* and prior sub-slices, in strictly ascending order of the code, and a code
\* present in one year only carries all-zero values for the other year.
C24_DetalhesPorNatureza ==
    (resultado.success /\ resultado.via = "raw") =>
        \A i \in 1..Len(Arvore.categorias) :
            \A j \in 1..Len(Arvore.categorias[i].grupos) :
                LET g == Arvore.categorias[i].grupos[j]
                    d == g.detalhes
                    at == ColunaUnique(FatiaDoGrupo(resultado.df_atual,
                                                    Arvore.categorias[i].id, g.id), "CONATUREZA")
                    an == ColunaUnique(FatiaDoGrupo(resultado.df_anterior,
                                                    Arvore.categorias[i].id, g.id), "CONATUREZA")
                IN  /\ Len(d) = Cardinality(at \cup an)
                    /\ { ValorDecimal(d[k].natureza) : k \in 1..Len(d) } = at \cup an
                    /\ \A k \in 1..(Len(d) - 1) :
                           ValorDecimal(d[k].natureza) < ValorDecimal(d[k + 1].natureza)
                    /\ \A k \in 1..Len(d) :
                           /\ ValorDecimal(d[k].natureza) \notin at
                                => d[k].valores_atual = criar_valores_zerados
                           /\ ValorDecimal(d[k].natureza) \notin an
                                => d[k].valores_anterior = criar_valores_zerados

\* A group with two detail nodes, the first with rows of the current year only
\* and the second with rows of the prior year only.
C24_Witness ==
    /\ resultado.success
    /\ resultado.via = "raw"
    /\ \E i \in 1..Len(Arvore.categorias) : \E j \in 1..Len(Arvore.categorias[i].grupos) :
          LET d == Arvore.categorias[i].grupos[j].detalhes
          IN  /\ Len(d) = 2
              /\ d[1].valores_atual.dotacao_inicial > 0
              /\ d[1].valores_anterior = criar_valores_zerados
              /\ d[2].valores_atual = criar_valores_zerados
              /\ d[2].valores_anterior.dotacao_inicial > 0


\* The calendar day of an hour of the clock.
DiaDe(hora) == hora \div 24

\* C25 (as the specification states it): _buscar_dados_completos never returns
\* an extract that was cached on an earlier calendar day.
C25_ExtratoDoDia ==
    (resultado.op = "buscar" /\ ~resultado.consultou) =>
        DiaDe(dados_pkl.mtime) = DiaDe(agora)


\* No two nodes of a sibling list share an id.
IdsDistintos(nos) ==
    \A i \in 1..Len(nos) : \A j \in 1..Len(nos) : i # j => nos[i].id # nos[j].id

IrmaosComIdsDistintos(arvore) ==
    /\ IdsDistintos(arvore.categorias)
    /\ \A i \in 1..Len(arvore.categorias) : IdsDistintos(arvore.categorias[i].grupos)

\* C26 (as the specification states it): in every tree returned by either entry
\* point no two categories share an id and no two groups under one category
\* share an id.
C26_IdsDeIrmaosUnicos ==
    resultado.success => IrmaosComIdsDistintos(Arvore)

\* C26, raw-row path: sibling ids are unique in every tree built from raw rows.
C26_IdsUnicosNoCaminhoBruto ==
    (resultado.success /\ resultado.via = "raw") => IrmaosComIdsDistintos(Arvore)


\* C27 (as the specification states it): after any sequence of salvar, obter,
\* invalidar, limpar_tudo and limpar_expirados, a .timeout override exists only
\* while the entry it belongs to exists.
C27_OverrideSoComEntrada ==
    \A p \in Caminhos : timeout_file[p] # 0 => pkl[p].existe


\* The value a readable cache file holds.
Guardado(arq) == arq.conteudo[1]

\* C28, raw-row path: the daily extract file never holds an empty extract; a
\* fetch that fails or yields no rows writes nothing.
C28_ExtratoVazioNaoGuardado ==
    (dados_pkl.existe /\ pickle_ok(dados_pkl.conteudo)) => Len(Guardado(dados_pkl)) > 0

C28_ExtratoVazioNaoGuardado_Witness ==
    /\ resultado.via = "raw"
    /\ resultado.extrato = << >>
    /\ ~dados_pkl.existe

\* C28 (as the specification states it): on both entry points an error-shaped
\* or empty result is never written to the cache, so it is never served from it.
C28_CacheSemResultadoVazio ==
    /\ C28_ExtratoVazioNaoGuardado
    /\ LET arq == pkl[get_cache_path(ChaveDemonstrativo)]
       IN  (arq.existe /\ pickle_ok(arq.conteudo)) =>
               /\ Guardado(arq).success
               /\ Len(Guardado(arq).demonstrativo.categorias) > 0


\* C29 (as the specification states it): recriar_cache returns True if and only
\* if, when it returns, the cache holds the extract fetched during this call.
C29_RecriarVerdadeiroSseGuardou ==
    resultado.op = "recriar" =>
        (resultado.ret <=> /\ dados_pkl.existe
                           /\ pickle_ok(dados_pkl.conteudo)
                           /\ Guardado(dados_pkl) = resultado.df)

\* C29, one direction: when recriar_cache returns False the cache holds no
\* extract.
C29_FalsoDeixaCacheVazio ==
    (resultado.op = "recriar" /\ ~resultado.ret) =>
        ~(dados_pkl.existe /\ pickle_ok(dados_pkl.conteudo))


\* C30 (as the specification states it): in every successful result of
\* processar_dados_comparativo the card totals equal the grand total of the
\* tree, field by field, for the current and the prior year.
C30_TotaisIguaisAoTotalGeral ==
    (resultado.success /\ resultado.via = "raw") =>
        /\ resultado.totais.atual = Arvore.total_geral.valores_atual
        /\ resultado.totais.anterior = Arvore.total_geral.valores_anterior

\* Every row of the call's slices carries a category of ESTRUTURA_CATEGORIAS.
CategoriasRegistradas(df) ==
    \A i \in 1..Len(df) :
        \E c \in 1..Len(ESTRUTURA_CATEGORIAS) : ESTRUTURA_CATEGORIAS[c].id = df[i].CATEGORIA

\* C30, registered categories only: the card totals equal the grand total
\* whenever every row of the two slices belongs to a registered category.
C30_TotaisComCategoriasRegistradas ==
    (/\ resultado.success /\ resultado.via = "raw"
     /\ CategoriasRegistradas(resultado.df_atual)
     /\ CategoriasRegistradas(resultado.df_anterior)) =>
        /\ resultado.totais.atual = Arvore.total_geral.valores_atual
        /\ resultado.totais.anterior = Arvore.total_geral.valores_anterior

====
